---- MODULE Spec2Model ----
(***************************************************************************)
(* A model of the LLM inference batching simulator: Engine.run's loop, the *)
(* three batchers, the load generators, the request state machine and the  *)
(* metric logs.                                                            *)
(*                                                                         *)
(* Simulated time is a float in the source.  Here every time is an integer *)
(* number of units, MinStepDuration units making one tick (the 1.0 of      *)
(* engine.py:184), and the costs the load generator is built with are      *)
(* multiples of MinStepDuration \div 2 that every chunk count of the model *)
(* divides, so that prefill_time / total_prefill_chunks is exact.  The one  *)
(* float operation whose rounding changes a count, the floor division by   *)
(* 1.0 / request_rate, is modelled with its rounding (FloorDiv).           *)
(*                                                                         *)
(* Objects: a Request lives in requests, at the index at which it was      *)
(* created; queue and current_batch hold such indices (references).        *)
(* current_batch is a Python dict: a sequence of [slot, req] entries in    *)
(* insertion order with pairwise distinct slots.                           *)
(***************************************************************************)
EXTENDS Integers, Sequences, FiniteSets, TLC

(* ------------------------------ bounds -------------------------------- *)
MaxBatchSize == 2      \* max_batch_size ranges over 1..MaxBatchSize
MaxLoad == 2           \* initial_batch, target_concurrency range over 0..MaxLoad
MaxOutputLen == 3      \* target_output_len_tokens ranges over 1..MaxOutputLen
MaxChunks == 2         \* total_prefill_chunks ranges over 1..MaxChunks
MaxRequests == 4       \* requests created in one run
MaxTimeLimit == 7      \* time_limit, in ticks
MaxTickCalls == 6      \* calls of tick() on a request driven on its own
MaxWorkers == 2        \* max_prefill_workers, max_decode_workers range over 1..MaxWorkers
MaxSubmitted == 3      \* requests the caller puts into prefill_queue

(* --------------------------- program constants ------------------------ *)
MinStepDuration == 60  \* the minimal step duration 1.0, in units
None == -1             \* Optional[float] = None

VARIABLES
    max_batch_size,    \* Engine.max_batch_size
    batcher,           \* class of Engine.batcher
    load_generator,    \* Engine.load_generator: its class and attributes
    requests,          \* the Request objects, in creation order
    queue,             \* Engine.queue
    current_batch,     \* Engine.current_batch
    current_time,      \* Engine.current_time
    metrics,           \* Engine.plot_data.metrics
    time_limit,        \* argument of the run call in progress
    pc,                \* position inside Engine.run or DisaggregatedEngine.run
    tick_calls,        \* calls of tick() made on a request driven on its own
    returned,          \* what the last call on that request returned or raised
    twin,              \* the run calls made on the engine, and the engine built
                       \* before it with the same arguments, as it was left
    max_prefill_workers,   \* DisaggregatedEngine.max_prefill_workers
    max_decode_workers,    \* DisaggregatedEngine.max_decode_workers
    prefill_queue,         \* DisaggregatedEngine.prefill_queue
    decode_queue,          \* DisaggregatedEngine.decode_queue
    prefill_slots,         \* DisaggregatedEngine.prefill_slots
    decode_slots,          \* DisaggregatedEngine.decode_slots
    completed_requests     \* DisaggregatedEngine.completed_requests

\* the attributes a DisaggregatedEngine has and an Engine has not
dis_vars == <<max_prefill_workers, max_decode_workers, prefill_queue,
              decode_queue, prefill_slots, decode_slots, completed_requests>>

vars == <<max_batch_size, batcher, load_generator, requests, queue,
          current_batch, current_time, metrics, time_limit, pc, tick_calls,
          returned, twin, dis_vars>>

(* ------------------------------ helpers ------------------------------- *)
Max2(a, b) == IF a >= b THEN a ELSE b

Min2(a, b) == IF a <= b THEN a ELSE b

RECURSIVE SumSeq(_)
SumSeq(s) == IF s = <<>> THEN 0 ELSE Head(s) + SumSeq(Tail(s))

RECURSIVE MaxSeq(_)
MaxSeq(s) == IF Len(s) = 1 THEN Head(s) ELSE Max2(Head(s), MaxSeq(Tail(s)))

SetMin(S) == CHOOSE x \in S : \A y \in S : x <= y

\* iteration order of a set of small non-negative ints: ascending
RECURSIVE SetToSeq(_)
SetToSeq(S) == IF S = {} THEN <<>> ELSE <<SetMin(S)>> \o SetToSeq(S \ {SetMin(S)})

Range(s) == {s[i] : i \in DOMAIN s}

(* ------------------------------ Request ------------------------------- *)
\* Request(id, prefill_time, itl, target_output_len_tokens): the base class
Request(id, prefill_time, itl, target_output_len_tokens) ==
    [id |-> id,
     prefill_time |-> prefill_time,
     itl |-> itl,
     target_output_len_tokens |-> target_output_len_tokens,
     added_to_queue_at |-> None,
     started_at |-> None,
     tokens_generated |-> 0]

\* isinstance(r, ChunkedContextRequest)
IsChunkedContextRequest(r) == "total_prefill_chunks" \in DOMAIN r

\* mutant: in prefill while chunks remain
is_in_prefill_ChunksRemaining(r) ==
    IF IsChunkedContextRequest(r)
    THEN r.prefill_chunks_completed < r.total_prefill_chunks
    ELSE r.tokens_generated = 0

\* Request.is_in_prefill, which ChunkedContextRequest inherits
is_in_prefill(r) == r.tokens_generated = 0

\* Request.tick
Request_tick(r) == [r EXCEPT !.tokens_generated = @ + 1]

\* mutant: <= for <, one chunk more than total_prefill_chunks
tick_Inclusive(r) ==
    IF r.prefill_chunks_completed <= r.total_prefill_chunks
    THEN [r EXCEPT !.prefill_chunks_completed = @ + 1]
    ELSE [r EXCEPT !.tokens_generated = @ + 1]

\* mutant: the last chunk tick also yields the first token
tick_LastChunkYieldsToken(r) ==
    IF r.prefill_chunks_completed < r.total_prefill_chunks
    THEN [r EXCEPT !.prefill_chunks_completed = @ + 1,
                   !.tokens_generated =
                       IF r.prefill_chunks_completed + 1 = r.total_prefill_chunks
                       THEN @ + 1 ELSE @]
    ELSE [r EXCEPT !.tokens_generated = @ + 1]

\* ChunkedContextRequest.tick
tick(r) ==
    IF r.prefill_chunks_completed < r.total_prefill_chunks
    THEN [r EXCEPT !.prefill_chunks_completed = @ + 1]
    ELSE [r EXCEPT !.tokens_generated = @ + 1]

\* Request.get_current_duration
Request_get_current_duration(r) ==
    IF is_in_prefill(r) THEN r.prefill_time ELSE r.itl

\* mutant: the prefill time is not divided by the number of chunks
get_current_duration_Unchunked(r) ==
    IF is_in_prefill(r) THEN r.prefill_time ELSE r.itl

\* ChunkedContextRequest.get_current_duration
get_current_duration(r) ==
    IF is_in_prefill(r)
    THEN r.prefill_time \div r.total_prefill_chunks
    ELSE r.itl

\* what a call that raises AssertionError yields in place of a value: no time
\* and no latency is negative
AssertionError == -2

\* no call has been made yet
NothingReturned == [call |-> "none"]

\* one engine, no run call made on it yet
NoTwin == [runs |-> <<>>, first |-> <<>>]

\* mutant: the latency counted from the assignment to a slot
get_current_latency_at_SinceStart(r, t) == t - r.started_at

\* mutant: the assertion is not made
get_current_latency_at_Unchecked(r, t) == t - r.added_to_queue_at

\* assert self.added_to_queue_at is not None: the exception in place of a value
get_current_latency_at(r, t) ==
    IF r.added_to_queue_at = None
    THEN AssertionError
    ELSE t - r.added_to_queue_at

\* mutant: <= for <, a completed request stays in its slot
not_completed_Inclusive(r) == r.tokens_generated <= r.target_output_len_tokens

\* the filter of Engine.run's retirement
not_completed(r) == r.tokens_generated < r.target_output_len_tokens

(* ------------------------------- Engine ------------------------------- *)
get_all_slots == 0 .. (max_batch_size - 1)

OccupiedSlots(batch) == {batch[i].slot : i \in DOMAIN batch}

get_occupied_slots == OccupiedSlots(current_batch)

\* current_batch.values(), as Request objects
BatchValues(batch, reqs) == [i \in DOMAIN batch |-> reqs[batch[i].req]]

\* current_batch[slot] = req on a dict: an existing key keeps its place
DictSet(batch, slot, req) ==
    IF slot \in OccupiedSlots(batch)
    THEN [i \in DOMAIN batch |->
            IF batch[i].slot = slot THEN [slot |-> slot, req |-> req] ELSE batch[i]]
    ELSE Append(batch, [slot |-> slot, req |-> req])

\* st = [queue, current_batch, requests]
assign_request_to_slot(st, req, slot) ==
    [st EXCEPT !.requests[req].started_at = current_time,
               !.current_batch = DictSet(@, slot, req)]

get_prefilling_requests(batch, reqs) ==
    SelectSeq(BatchValues(batch, reqs), LAMBDA r : is_in_prefill(r))

get_decoding_requests(batch, reqs) ==
    SelectSeq(BatchValues(batch, reqs), LAMBDA r : ~is_in_prefill(r))

\* mutant: the prefill cost is the maximum over the prefilling requests, not the sum
get_current_batch_duration_MaxPrefill(batch, reqs) ==
    LET decoding_requests == get_decoding_requests(batch, reqs)
        prefilling == get_prefilling_requests(batch, reqs)
        prefill_time == IF prefilling # <<>>
                        THEN MaxSeq([i \in DOMAIN prefilling |->
                                       get_current_duration(prefilling[i])])
                        ELSE 0
        itl_time == IF decoding_requests # <<>>
                    THEN MaxSeq([i \in DOMAIN decoding_requests |->
                                   decoding_requests[i].itl])
                    ELSE 0
    IN  Max2(Max2(prefill_time, itl_time), MinStepDuration)

\* mutant: without the floor of 1.0
get_current_batch_duration_NoFloor(batch, reqs) ==
    LET decoding_requests == get_decoding_requests(batch, reqs)
        prefilling == get_prefilling_requests(batch, reqs)
        prefill_time == SumSeq([i \in DOMAIN prefilling |->
                                   get_current_duration(prefilling[i])])
        itl_time == IF decoding_requests # <<>>
                    THEN MaxSeq([i \in DOMAIN decoding_requests |->
                                   decoding_requests[i].itl])
                    ELSE 0
    IN  Max2(prefill_time, itl_time)

get_current_batch_duration(batch, reqs) ==
    LET decoding_requests == get_decoding_requests(batch, reqs)
        prefilling == get_prefilling_requests(batch, reqs)
        prefill_time == SumSeq([i \in DOMAIN prefilling |->
                                   get_current_duration(prefilling[i])])
        itl_time == IF decoding_requests # <<>>
                    THEN MaxSeq([i \in DOMAIN decoding_requests |->
                                   decoding_requests[i].itl])
                    ELSE 0
    IN  Max2(Max2(prefill_time, itl_time), MinStepDuration)

(* ------------------------------ Batchers ------------------------------ *)
\* mutant: the head of the queue is read, not popped
RECURSIVE FillSlots_NoPop(_, _, _)
FillSlots_NoPop(slots, st, only_one) ==
    IF slots = <<>> \/ st.queue = <<>>
    THEN st
    ELSE LET request == Head(st.queue)
             assigned == assign_request_to_slot(st, request, Head(slots))
         IN  IF only_one THEN assigned
             ELSE FillSlots_NoPop(Tail(slots), assigned, only_one)

\* mutant: queue.pop() for queue.pop(0), the newest request is taken first
RECURSIVE FillSlots_PopLast(_, _, _)
FillSlots_PopLast(slots, st, only_one) ==
    IF slots = <<>> \/ st.queue = <<>>
    THEN st
    ELSE LET request == st.queue[Len(st.queue)]
             popped == [st EXCEPT !.queue = SubSeq(@, 1, Len(@) - 1)]
             assigned == assign_request_to_slot(popped, request, Head(slots))
         IN  IF only_one THEN assigned
             ELSE FillSlots_PopLast(Tail(slots), assigned, only_one)

\* for slot in slots: if not len(queue): break; pop(0); assign; [break]
RECURSIVE FillSlots(_, _, _)
FillSlots(slots, st, only_one) ==
    IF slots = <<>> \/ st.queue = <<>>
    THEN st
    ELSE LET request == Head(st.queue)
             popped == [st EXCEPT !.queue = Tail(@)]
             assigned == assign_request_to_slot(popped, request, Head(slots))
         IN  IF only_one THEN assigned
             ELSE FillSlots(Tail(slots), assigned, only_one)

EngineState == [queue |-> queue, current_batch |-> current_batch,
                requests |-> requests]

\* mutant: the test for occupied slots is missing, free slots are filled at once
StaticBatcher_add_requests_FillsFree(st) ==
    FillSlots(SetToSeq(get_all_slots \ OccupiedSlots(st.current_batch)), st, FALSE)

StaticBatcher_add_requests(st) ==
    IF OccupiedSlots(st.current_batch) # {}
    THEN st
    ELSE FillSlots(SetToSeq(get_all_slots), st, FALSE)

\* mutant: the loop stops after the first assignment
IFBatcher_add_requests_OnlyOne(st) ==
    LET empty_slots == get_all_slots \ OccupiedSlots(st.current_batch)
    IN  FillSlots(SetToSeq(empty_slots), st, TRUE)

IFBatcher_add_requests(st) ==
    LET empty_slots == get_all_slots \ OccupiedSlots(st.current_batch)
    IN  FillSlots(SetToSeq(empty_slots), st, FALSE)

\* mutant: IFBatcher's add_requests is inherited, not overridden
IFBatcherWithOnePrefillOnly_add_requests_Inherited(st) ==
    LET empty_slots == get_all_slots \ OccupiedSlots(st.current_batch)
    IN  FillSlots(SetToSeq(empty_slots), st, FALSE)

\* mutant: one request per call, but the test for a request in prefill is missing
IFBatcherWithOnePrefillOnly_add_requests_NoPrefillTest(st) ==
    LET empty_slots == get_all_slots \ OccupiedSlots(st.current_batch)
    IN  FillSlots(SetToSeq(empty_slots), st, TRUE)

IFBatcherWithOnePrefillOnly_add_requests(st) ==
    IF Len(get_prefilling_requests(st.current_batch, st.requests)) # 0
    THEN st
    ELSE LET empty_slots == get_all_slots \ OccupiedSlots(st.current_batch)
         IN  FillSlots(SetToSeq(empty_slots), st, TRUE)

(* --------------------------- Load generators -------------------------- *)
\* mutant: the id is the creation time alone
get_request_TimeOnly(id_postfix, output_len) ==
    [id |-> <<current_time, None>>,
     prefill_time |-> load_generator.prefill_time,
     itl |-> load_generator.itl,
     total_prefill_chunks |-> load_generator.total_prefill_chunks,
     target_output_len_tokens |-> output_len,
     added_to_queue_at |-> current_time,
     started_at |-> None,
     tokens_generated |-> 0,
     prefill_chunks_completed |-> 1]

\* ChunkedContextRequest(...) as built by get_request
get_request(id_postfix, output_len) ==
    [id |-> <<current_time, id_postfix>>,
     prefill_time |-> load_generator.prefill_time,
     itl |-> load_generator.itl,
     total_prefill_chunks |-> load_generator.total_prefill_chunks,
     target_output_len_tokens |-> output_len,
     added_to_queue_at |-> current_time,
     started_at |-> None,
     tokens_generated |-> 0,
     prefill_chunks_completed |-> 1]

\* mutant: a draw that varies also when std = 0
OutputLens_Perturbed == 1 .. MaxOutputLen

\* int(max(np.random.normal(mean, std), 1)): the mean when std = 0, else any
\* integer >= 1 (here up to MaxOutputLen)
OutputLens ==
    IF load_generator.target_output_len_std = 0
    THEN {Max2(load_generator.target_output_len_tokens, 1)}
    ELSE 1 .. MaxOutputLen

\* the n requests add_n_requests_to_queue appends, one output length each;
\* a negative n is an empty range
add_n_requests_to_queue(n, lens) ==
    /\ Len(requests) + Max2(n, 0) <= MaxRequests
    /\ requests' = requests \o [i \in 1 .. n |-> get_request(i - 1, lens[i])]
    /\ queue' = queue \o [i \in 1 .. n |-> Len(requests) + i]

LoadGenerator_generate_load ==
    /\ load_generator.class = "LoadGenerator"
    /\ Len(requests) + 1 <= MaxRequests
    /\ requests' = Append(requests,
                     get_request(None, load_generator.target_output_len_tokens))
    /\ queue' = Append(queue, Len(requests) + 1)
    /\ UNCHANGED load_generator

\* mutant: without the test of current_time, a batch at every step
BatchLoadGenerator_generate_load_EveryStep ==
    /\ load_generator.class = "BatchLoadGenerator"
    /\ \E lens \in [1 .. load_generator.initial_batch -> OutputLens] :
           add_n_requests_to_queue(load_generator.initial_batch, lens)
    /\ UNCHANGED load_generator

BatchLoadGenerator_generate_load ==
    /\ load_generator.class = "BatchLoadGenerator"
    /\ IF current_time > 0
       THEN UNCHANGED <<requests, queue>>
       ELSE \E lens \in [1 .. load_generator.initial_batch -> OutputLens] :
                add_n_requests_to_queue(load_generator.initial_batch, lens)
    /\ UNCHANGED load_generator

\* mutant: the queued requests are not counted
ConcurrentLoadGenerator_generate_load_IgnoresQueue ==
    /\ load_generator.class = "ConcurrentLoadGenerator"
    /\ LET current_concurrency == Cardinality(get_occupied_slots)
           need_to_add == load_generator.target_concurrency - current_concurrency
       IN  \E lens \in [1 .. need_to_add -> OutputLens] :
                add_n_requests_to_queue(need_to_add, lens)
    /\ load_generator' = [load_generator EXCEPT !.last_generation_time = current_time]

ConcurrentLoadGenerator_generate_load ==
    /\ load_generator.class = "ConcurrentLoadGenerator"
    /\ LET current_concurrency == Cardinality(get_occupied_slots)
           already_in_queue == Len(queue)
           need_to_add == load_generator.target_concurrency
                            - current_concurrency - already_in_queue
       IN  \E lens \in [1 .. need_to_add -> OutputLens] :
                add_n_requests_to_queue(need_to_add, lens)
    /\ load_generator' = [load_generator EXCEPT !.last_generation_time = current_time]

\* the values of generate_every = 1.0 / request_rate that are doubles above
\* the exact quotient: 1.0 / 5.0 is 0.200000000000000011
RoundedUpReciprocals == {MinStepDuration \div 5}

\* x // y for the floats x (a time, a whole number of ticks whenever the exact
\* y divides it) and y = generate_every: the floor of the quotient of the two
\* doubles, which is one below x / y when the double y exceeds the exact y
FloorDiv(x, y) ==
    IF y \in RoundedUpReciprocals /\ x > 0 /\ x % y = 0
    THEN (x \div y) - 1
    ELSE x \div y

RequestRateLoadGenerator_generate_load ==
    /\ load_generator.class = "RequestRateLoadGenerator"
    /\ LET generate_every == load_generator.generate_every
           already_generated == FloorDiv(load_generator.last_generation_time,
                                         generate_every)
           final_generated == FloorDiv(current_time, generate_every)
           num_requests == final_generated - already_generated
       IN  \E lens \in [1 .. num_requests -> OutputLens] :
                add_n_requests_to_queue(num_requests, lens)
    /\ load_generator' = [load_generator EXCEPT !.last_generation_time = current_time]

(* ------------------------------ Metrics ------------------------------- *)
\* mutant: >= 1 for == 1, a TTFT sample at every token
RECURSIVE track_previous_batch_EveryToken(_, _)
track_previous_batch_EveryToken(m, batch) ==
    IF batch = <<>> THEN m
    ELSE LET req == Head(batch)
             sample == <<current_time, get_current_latency_at(req, current_time)>>
             m1 == IF req.tokens_generated >= 1
                   THEN [m EXCEPT !.ttft = Append(@, sample)]
                   ELSE m
             m2 == IF req.tokens_generated = req.target_output_len_tokens
                   THEN [m1 EXCEPT !.e2e_latency = Append(@, sample),
                                   !.osl = Append(@, <<current_time,
                                                       req.target_output_len_tokens>>)]
                   ELSE m1
         IN  track_previous_batch_EveryToken(m2, Tail(batch))

\* the samples one request adds in track_previous_batch
RECURSIVE track_previous_batch(_, _)
track_previous_batch(m, batch) ==
    IF batch = <<>> THEN m
    ELSE LET req == Head(batch)
             sample == <<current_time, get_current_latency_at(req, current_time)>>
             m1 == IF req.tokens_generated = 1
                   THEN [m EXCEPT !.ttft = Append(@, sample)]
                   ELSE m
             m2 == IF req.tokens_generated = req.target_output_len_tokens
                   THEN [m1 EXCEPT !.e2e_latency = Append(@, sample),
                                   !.osl = Append(@, <<current_time,
                                                       req.target_output_len_tokens>>)]
                   ELSE m1
         IN  track_previous_batch(m2, Tail(batch))

\* mutant: an ITL sample from the first token on
track_current_batch_FirstToken(m) ==
    LET duration == get_current_batch_duration(current_batch, requests)
        values == BatchValues(current_batch, requests)
        decoded == SelectSeq(values, LAMBDA r : r.tokens_generated >= 1)
    IN  [m EXCEPT !.times = Append(@, current_time + duration),
                  !.queue_size = Append(@, Len(queue)),
                  !.itl = @ \o [i \in DOMAIN decoded |-> <<current_time, duration>>]]

\* mutant: the logs keep the samples of the latest step only
track_current_batch_LatestOnly(m) ==
    LET duration == get_current_batch_duration(current_batch, requests)
        values == BatchValues(current_batch, requests)
        decoded == SelectSeq(values, LAMBDA r : r.tokens_generated > 1)
    IN  [m EXCEPT !.times = Append(@, current_time + duration),
                  !.queue_size = <<Len(queue)>>,
                  !.itl = [i \in DOMAIN decoded |-> <<current_time, duration>>]]

\* PlotData.track_current_batch: _add_batch appends the end time of the step,
\* then Metrics.track_current_batch
track_current_batch(m) ==
    LET duration == get_current_batch_duration(current_batch, requests)
        values == BatchValues(current_batch, requests)
        decoded == SelectSeq(values, LAMBDA r : r.tokens_generated > 1)
    IN  [m EXCEPT !.times = Append(@, current_time + duration),
                  !.queue_size = Append(@, Len(queue)),
                  !.itl = @ \o [i \in DOMAIN decoded |-> <<current_time, duration>>]]

\* mutant: the window of step i starts where the first step started
get_time_interval_FromStart(i) == <<metrics.times[1], metrics.times[i + 2]>>

\* Metrics.get_time_interval(i): (self.times[i], self.times[i + 1]), the list
\* indexed from 0
get_time_interval(i) == <<metrics.times[i + 1], metrics.times[i + 2]>>

(* ------------------------- Engine.run, by statement ------------------- *)
\* run(time_limit) is called
Run ==
    /\ pc = "idle"
    /\ time_limit' \in {0, (MaxTimeLimit * MinStepDuration) \div 2,
                        MaxTimeLimit * MinStepDuration}
    /\ pc' = "while"
    /\ UNCHANGED <<dis_vars, twin, returned, tick_calls, max_batch_size, batcher, load_generator, requests, queue,
                   current_batch, current_time, metrics>>

\* mutant: <= for <, a step begins at current_time = time_limit
While_Inclusive ==
    /\ pc = "while"
    /\ pc' = IF current_time <= time_limit THEN "tick" ELSE "idle"
    /\ UNCHANGED <<dis_vars, twin, returned, tick_calls, max_batch_size, batcher, load_generator, requests, queue,
                   current_batch, current_time, metrics, time_limit>>

\* while self.current_time < time_limit
While ==
    /\ pc = "while"
    /\ pc' = IF current_time < time_limit THEN "tick" ELSE "idle"
    /\ UNCHANGED <<dis_vars, twin, returned, tick_calls, max_batch_size, batcher, load_generator, requests, queue,
                   current_batch, current_time, metrics, time_limit>>

\* for req in self.current_batch.values(): req.tick()
TickBatch ==
    /\ pc = "tick"
    /\ requests' = [i \in DOMAIN requests |->
                      IF \E j \in DOMAIN current_batch : current_batch[j].req = i
                      THEN tick(requests[i]) ELSE requests[i]]
    /\ pc' = "track_previous"
    /\ UNCHANGED <<dis_vars, twin, returned, tick_calls, max_batch_size, batcher, load_generator, queue,
                   current_batch, current_time, metrics, time_limit>>

TrackPreviousBatch ==
    /\ pc = "track_previous"
    /\ metrics' = track_previous_batch(metrics, BatchValues(current_batch, requests))
    /\ pc' = "complete"
    /\ UNCHANGED <<dis_vars, twin, returned, tick_calls, max_batch_size, batcher, load_generator, requests, queue,
                   current_batch, current_time, time_limit>>

\* mutant: the batcher is called right after retirement, before the load generator
CompleteRequests_BatcherFirst ==
    /\ pc = "complete"
    /\ current_batch' = SelectSeq(current_batch, LAMBDA e :
                                      not_completed(requests[e.req]))
    /\ pc' = "add_requests"
    /\ UNCHANGED <<dis_vars, twin, returned, tick_calls, max_batch_size, batcher, load_generator, requests, queue,
                   current_time, metrics, time_limit>>

\* keep only the requests that are not completed yet
CompleteRequests ==
    /\ pc = "complete"
    /\ current_batch' = SelectSeq(current_batch, LAMBDA e :
                                      not_completed(requests[e.req]))
    /\ pc' = "generate_load"
    /\ UNCHANGED <<dis_vars, twin, returned, tick_calls, max_batch_size, batcher, load_generator, requests, queue,
                   current_time, metrics, time_limit>>

GenerateLoad ==
    /\ pc = "generate_load"
    /\ \/ LoadGenerator_generate_load
       \/ BatchLoadGenerator_generate_load
       \/ ConcurrentLoadGenerator_generate_load
       \/ RequestRateLoadGenerator_generate_load
    /\ pc' = "add_requests"
    /\ UNCHANGED <<dis_vars, twin, returned, tick_calls, max_batch_size, batcher, current_batch, current_time,
                   metrics, time_limit>>

add_requests(st) ==
    CASE batcher = "StaticBatcher" -> StaticBatcher_add_requests(st)
      [] batcher = "IFBatcher" -> IFBatcher_add_requests(st)
      [] batcher = "IFBatcherWithOnePrefillOnly" ->
             IFBatcherWithOnePrefillOnly_add_requests(st)

AddRequests ==
    /\ pc = "add_requests"
    /\ LET st == add_requests(EngineState)
       IN  /\ queue' = st.queue
           /\ current_batch' = st.current_batch
           /\ requests' = st.requests
    /\ pc' = "track_current"
    /\ UNCHANGED <<dis_vars, twin, returned, tick_calls, max_batch_size, batcher, load_generator, current_time,
                   metrics, time_limit>>

TrackCurrentBatch ==
    /\ pc = "track_current"
    /\ metrics' = track_current_batch(metrics)
    /\ pc' = "advance"
    /\ UNCHANGED <<dis_vars, twin, returned, tick_calls, max_batch_size, batcher, load_generator, requests, queue,
                   current_batch, current_time, time_limit>>

\* duration = self.get_current_batch_duration(); self.current_time += duration
AdvanceTime ==
    /\ pc = "advance"
    /\ current_time' = current_time
                         + get_current_batch_duration(current_batch, requests)
    /\ pc' = "while"
    /\ UNCHANGED <<dis_vars, twin, returned, tick_calls, max_batch_size, batcher, load_generator, requests, queue,
                   current_batch, metrics, time_limit>>

(* ------------------------------- Init --------------------------------- *)
Batchers == {"StaticBatcher", "IFBatcher", "IFBatcherWithOnePrefillOnly"}

PrefillTimes == {MinStepDuration \div 2, 2 * MinStepDuration}

Itls == {MinStepDuration, 3 * MinStepDuration}

\* 1.0 / request_rate, in units
GenerateEverys == {MinStepDuration \div 2, 3 * MinStepDuration}

\* the attributes every generator has; a perturbed run (std > 0) draws each
\* output length anew, whatever the mean, and is run with the default costs
\* of load_generator.py:41-42 only
Costs ==
    {c \in [prefill_time : PrefillTimes, itl : Itls,
            target_output_len_tokens : 1 .. MaxOutputLen,
            total_prefill_chunks : 1 .. MaxChunks,
            target_output_len_std : {0, 1}] :
        c.target_output_len_std > 0 =>
            /\ c.target_output_len_tokens = MaxOutputLen
            /\ c.prefill_time = 2 * MinStepDuration
            /\ c.itl = MinStepDuration}

\* the default costs of load_generator.py:41-42, unperturbed
DefaultCosts ==
    {c \in Costs : /\ c.prefill_time = 2 * MinStepDuration
                   /\ c.itl = MinStepDuration
                   /\ c.target_output_len_std = 0}

LoadGenerators ==
    {[class |-> "LoadGenerator", costs |-> c] :
        c \in {c \in Costs : c.target_output_len_std = 0}}
    \cup {[class |-> "BatchLoadGenerator", costs |-> c, initial_batch |-> n] :
        c \in Costs, n \in 0 .. MaxLoad}
    \cup {[class |-> "ConcurrentLoadGenerator", costs |-> c,
           target_concurrency |-> n, last_generation_time |-> None] :
        c \in Costs, n \in 0 .. MaxLoad}
    \cup {[class |-> "RequestRateLoadGenerator", costs |-> c,
           generate_every |-> g, last_generation_time |-> 0] :
        c \in Costs, g \in GenerateEverys}
    \cup {[class |-> "RequestRateLoadGenerator", costs |-> c,
           generate_every |-> g, last_generation_time |-> 0] :
        c \in DefaultCosts, g \in RoundedUpReciprocals}

\* the generator object: its own attributes and the inherited ones
Attributes(g) ==
    [x \in (DOMAIN g \ {"costs"}) \cup DOMAIN g.costs |->
        IF x \in DOMAIN g.costs THEN g.costs[x] ELSE g[x]]

\* no DisaggregatedEngine is built
NoDisaggregatedEngine ==
    /\ max_prefill_workers = 0
    /\ max_decode_workers = 0
    /\ prefill_queue = <<>>
    /\ decode_queue = <<>>
    /\ prefill_slots = <<>>
    /\ decode_slots = <<>>
    /\ completed_requests = <<>>

Init ==
    /\ max_batch_size \in 1 .. MaxBatchSize
    /\ batcher \in Batchers
    /\ \E g \in LoadGenerators : load_generator = Attributes(g)
    /\ requests = <<>>
    /\ queue = <<>>
    /\ current_batch = <<>>
    /\ current_time = 0
    /\ metrics = [times |-> <<0>>, queue_size |-> <<>>, e2e_latency |-> <<>>,
                  ttft |-> <<>>, itl |-> <<>>, osl |-> <<>>]
    /\ time_limit = 0
    /\ pc = "idle"
    /\ tick_calls = 0
    /\ returned = NothingReturned
    /\ twin = NoTwin
    /\ NoDisaggregatedEngine

Next ==
    \/ Run
    \/ While
    \/ TickBatch
    \/ TrackPreviousBatch
    \/ CompleteRequests
    \/ GenerateLoad
    \/ AddRequests
    \/ TrackCurrentBatch
    \/ AdvanceTime

Spec == Init /\ [][Next]_vars

(* ----------------------- a request on its own ------------------------- *)
\* A fresh request, built by a load generator's get_request or by the base
\* class's constructor, on which tick() is called again and again.
RequestInit ==
    /\ max_batch_size = 1
    /\ batcher = "StaticBatcher"
    /\ \E g \in LoadGenerators : load_generator = Attributes(g)
    /\ queue = <<>>
    /\ current_batch = <<>>
    /\ current_time = 0
    /\ \E output_len \in OutputLens :
           \/ requests = <<get_request(None, output_len)>>
           \/ requests = <<Request(<<0, None>>, load_generator.prefill_time,
                                   load_generator.itl, output_len)>>
    /\ metrics = [times |-> <<0>>, queue_size |-> <<>>, e2e_latency |-> <<>>,
                  ttft |-> <<>>, itl |-> <<>>, osl |-> <<>>]
    /\ time_limit = 0
    /\ pc = "request"
    /\ tick_calls = 0
    /\ returned = NothingReturned
    /\ twin = NoTwin
    /\ NoDisaggregatedEngine

\* req.tick(), dispatched on the class of the request
RequestTick ==
    /\ pc = "request"
    /\ tick_calls < MaxTickCalls
    /\ requests' = <<IF IsChunkedContextRequest(requests[1])
                     THEN tick(requests[1])
                     ELSE Request_tick(requests[1])>>
    /\ tick_calls' = tick_calls + 1
    /\ UNCHANGED <<max_batch_size, batcher, load_generator, queue,
                   current_batch, current_time, metrics, time_limit, pc,
                   returned, twin, dis_vars>>

\* req.get_current_duration(), dispatched on the class of the request
RequestGetCurrentDuration ==
    /\ pc = "request"
    /\ returned' = [call |-> "get_current_duration",
                    value |-> IF IsChunkedContextRequest(requests[1])
                              THEN get_current_duration(requests[1])
                              ELSE Request_get_current_duration(requests[1])]
    /\ UNCHANGED <<max_batch_size, batcher, load_generator, requests, queue,
                   current_batch, current_time, metrics, time_limit, pc,
                   tick_calls, twin, dis_vars>>

\* req.get_current_latency_at(t)
RequestGetCurrentLatencyAt ==
    /\ pc = "request"
    /\ \E t \in {0, MinStepDuration} :
           returned' = [call |-> "get_current_latency_at", at |-> t,
                        value |-> get_current_latency_at(requests[1], t)]
    /\ UNCHANGED <<max_batch_size, batcher, load_generator, requests, queue,
                   current_batch, current_time, metrics, time_limit, pc,
                   tick_calls, twin, dis_vars>>

RequestNext ==
    \/ RequestTick
    \/ RequestGetCurrentDuration
    \/ RequestGetCurrentLatencyAt

RequestSpec == RequestInit /\ [][RequestNext]_vars

(* ------------- an Engine run, or a request on its own ----------------- *)
\* The callers of get_current_latency_at: Metrics.track_previous_batch in an
\* Engine run, and code that holds a request of its own.
LatencyInit == Init \/ RequestInit

LatencyNext == Next \/ RequestNext

LatencySpec == LatencyInit /\ [][LatencyNext]_vars

(* ------------------------- DisaggregatedEngine ------------------------ *)
get_prefill_slots == 0 .. (max_prefill_workers - 1)

get_decode_slots ==
    max_prefill_workers .. (max_prefill_workers + max_decode_workers - 1)

get_occupied_prefill_slots == OccupiedSlots(prefill_slots)

get_occupied_decode_slots == OccupiedSlots(decode_slots)

\* the method of DisaggregatedEngine
Dis_get_occupied_slots == get_occupied_prefill_slots \cup get_occupied_decode_slots

\* the property queue: a list built anew at every read
Dis_queue == prefill_queue \o decode_queue

\* the property current_batch: {**self.prefill_slots, **self.decode_slots}
Dis_current_batch ==
    [i \in DOMAIN prefill_slots |->
        IF prefill_slots[i].slot \in get_occupied_decode_slots
        THEN CHOOSE e \in Range(decode_slots) : e.slot = prefill_slots[i].slot
        ELSE prefill_slots[i]]
    \o SelectSeq(decode_slots, LAMBDA e : e.slot \notin get_occupied_prefill_slots)

\* max(x) of the durations of a pool, [0] for an empty pool
PoolDuration(pool) ==
    IF pool = <<>> THEN 0
    ELSE MaxSeq([i \in DOMAIN pool |-> get_current_duration(requests[pool[i].req])])

\* mutant: the prefill durations are added up, as in Engine
Dis_get_current_batch_duration_SumPrefill ==
    Max2(Max2(SumSeq([i \in DOMAIN prefill_slots |->
                         get_current_duration(requests[prefill_slots[i].req])]),
              PoolDuration(decode_slots)),
         MinStepDuration)

Dis_get_current_batch_duration ==
    Max2(Max2(PoolDuration(prefill_slots), PoolDuration(decode_slots)),
         MinStepDuration)

\* req.tick() for every entry of a pool, one after the other
RECURSIVE TickPool(_, _)
TickPool(reqs, pool) ==
    IF pool = <<>> THEN reqs
    ELSE TickPool([reqs EXCEPT ![Head(pool).req] = tick(@)], Tail(pool))

\* DisaggregatedPrefillBatcher.add_requests: the free prefill slots are filled
\* from the head of prefill_queue (pop_prefill_request,
\* assign_request_to_prefill_slot)
DisaggregatedPrefillBatcher_add_requests(st) ==
    FillSlots(SetToSeq(get_prefill_slots \ OccupiedSlots(st.current_batch)),
              st, FALSE)

\* DisaggregatedDecodeBatcher.add_requests: the free decode slots are filled
\* from the head of decode_queue (pop_decode_request,
\* assign_request_to_decode_slot)
DisaggregatedDecodeBatcher_add_requests(st) ==
    FillSlots(SetToSeq(get_decode_slots \ OccupiedSlots(st.current_batch)),
              st, FALSE)

\* add_n_requests_to_queue on a DisaggregatedEngine: self.engine.queue is the
\* property, so the requests are appended to a list nobody keeps
Dis_add_n_requests_to_queue(n, lens) ==
    /\ Len(requests) + Max2(n, 0) <= MaxRequests
    /\ requests' = requests \o [i \in 1 .. n |-> get_request(i - 1, lens[i])]

\* the generate_load of each class, reading the engine through the
\* properties and methods of DisaggregatedEngine
Dis_generate_load ==
    \/ /\ load_generator.class = "LoadGenerator"
       /\ Len(requests) + 1 <= MaxRequests
       /\ requests' = Append(requests,
                        get_request(None, load_generator.target_output_len_tokens))
       /\ UNCHANGED load_generator
    \/ /\ load_generator.class = "BatchLoadGenerator"
       /\ IF current_time > 0
          THEN UNCHANGED requests
          ELSE \E lens \in [1 .. load_generator.initial_batch -> OutputLens] :
                   Dis_add_n_requests_to_queue(load_generator.initial_batch, lens)
       /\ UNCHANGED load_generator
    \/ /\ load_generator.class = "ConcurrentLoadGenerator"
       /\ LET current_concurrency == Cardinality(Dis_get_occupied_slots)
              already_in_queue == Len(Dis_queue)
              need_to_add == load_generator.target_concurrency
                               - current_concurrency - already_in_queue
          IN  \E lens \in [1 .. need_to_add -> OutputLens] :
                   Dis_add_n_requests_to_queue(need_to_add, lens)
       /\ load_generator' =
              [load_generator EXCEPT !.last_generation_time = current_time]
    \/ /\ load_generator.class = "RequestRateLoadGenerator"
       /\ LET generate_every == load_generator.generate_every
              already_generated == FloorDiv(load_generator.last_generation_time,
                                            generate_every)
              final_generated == FloorDiv(current_time, generate_every)
              num_requests == final_generated - already_generated
          IN  \E lens \in [1 .. num_requests -> OutputLens] :
                   Dis_add_n_requests_to_queue(num_requests, lens)
       /\ load_generator' =
              [load_generator EXCEPT !.last_generation_time = current_time]

\* PlotData.track_current_batch on a DisaggregatedEngine
Dis_track_current_batch(m) ==
    LET duration == Dis_get_current_batch_duration
        values == BatchValues(Dis_current_batch, requests)
        decoded == SelectSeq(values, LAMBDA r : r.tokens_generated > 1)
    IN  [m EXCEPT !.times = Append(@, current_time + duration),
                  !.queue_size = Append(@, Len(Dis_queue)),
                  !.itl = @ \o [i \in DOMAIN decoded |-> <<current_time, duration>>]]

\* what DisaggregatedEngine.run leaves alone in every statement
DisFrame == UNCHANGED <<max_batch_size, batcher, queue, current_batch, tick_calls,
                        returned, twin, max_prefill_workers, max_decode_workers>>

\* the caller, before the first step: req = load_generator.get_request(str(i));
\* engine.prefill_queue.append(req)
DisSubmit ==
    /\ pc = "dis_idle"
    /\ current_time = 0
    /\ Len(requests) < MaxSubmitted
    /\ \E output_len \in OutputLens :
           requests' = Append(requests, get_request(Len(requests), output_len))
    /\ prefill_queue' = Append(prefill_queue, Len(requests) + 1)
    /\ DisFrame
    /\ UNCHANGED <<load_generator, current_time, metrics, time_limit, pc,
                   decode_queue, prefill_slots, decode_slots, completed_requests>>

\* run(time_limit) is called
DisRun ==
    /\ pc = "dis_idle"
    /\ time_limit' \in {0, (MaxTimeLimit * MinStepDuration) \div 2,
                        MaxTimeLimit * MinStepDuration}
    /\ pc' = "dis_while"
    /\ DisFrame
    /\ UNCHANGED <<load_generator, requests, current_time, metrics,
                   prefill_queue, decode_queue, prefill_slots, decode_slots,
                   completed_requests>>

\* while self.current_time < time_limit
DisWhile ==
    /\ pc = "dis_while"
    /\ pc' = IF current_time < time_limit THEN "dis_tick" ELSE "dis_idle"
    /\ DisFrame
    /\ UNCHANGED <<load_generator, requests, current_time, metrics, time_limit,
                   prefill_queue, decode_queue, prefill_slots, decode_slots,
                   completed_requests>>

\* Step 1: tick the requests of the prefill slots, then of the decode slots
DisTick ==
    /\ pc = "dis_tick"
    /\ requests' = TickPool(TickPool(requests, prefill_slots), decode_slots)
    /\ pc' = "dis_track_previous"
    /\ DisFrame
    /\ UNCHANGED <<load_generator, current_time, metrics, time_limit,
                   prefill_queue, decode_queue, prefill_slots, decode_slots,
                   completed_requests>>

DisTrackPrevious ==
    /\ pc = "dis_track_previous"
    /\ metrics' = track_previous_batch(metrics,
                                       BatchValues(Dis_current_batch, requests))
    /\ pc' = "dis_move_prefill"
    /\ DisFrame
    /\ UNCHANGED <<load_generator, requests, current_time, time_limit,
                   prefill_queue, decode_queue, prefill_slots, decode_slots,
                   completed_requests>>

\* mutant: the finished request is queued for decode and keeps its prefill slot
DisMovePrefill_KeepsSlot ==
    /\ pc = "dis_move_prefill"
    /\ LET finished_prefill ==
               SelectSeq(prefill_slots, LAMBDA e : ~is_in_prefill(requests[e.req]))
       IN  /\ UNCHANGED prefill_slots
           /\ decode_queue' = decode_queue \o
                  [i \in DOMAIN finished_prefill |-> finished_prefill[i].req]
    /\ pc' = "dis_complete"
    /\ DisFrame
    /\ UNCHANGED <<load_generator, requests, current_time, metrics, time_limit,
                   prefill_queue, decode_slots, completed_requests>>

\* Step 2: the requests that left prefill go from their slot to decode_queue
DisMovePrefill ==
    /\ pc = "dis_move_prefill"
    /\ LET finished_prefill ==
               SelectSeq(prefill_slots, LAMBDA e : ~is_in_prefill(requests[e.req]))
       IN  /\ prefill_slots' =
                  SelectSeq(prefill_slots, LAMBDA e : is_in_prefill(requests[e.req]))
           /\ decode_queue' = decode_queue \o
                  [i \in DOMAIN finished_prefill |-> finished_prefill[i].req]
    /\ pc' = "dis_complete"
    /\ DisFrame
    /\ UNCHANGED <<load_generator, requests, current_time, metrics, time_limit,
                   prefill_queue, decode_slots, completed_requests>>

\* mutant: a request is finished only once it is past its target
finished_decode_Strict(r) == r.tokens_generated > r.target_output_len_tokens

\* the test of Step 3
finished_decode(r) == r.tokens_generated >= r.target_output_len_tokens

\* Step 3: the completed requests go from their decode slot to completed_requests
DisCompleteDecode ==
    /\ pc = "dis_complete"
    /\ LET finished == SelectSeq(decode_slots,
                                 LAMBDA e : finished_decode(requests[e.req]))
       IN  /\ decode_slots' =
                  SelectSeq(decode_slots,
                            LAMBDA e : ~finished_decode(requests[e.req]))
           /\ completed_requests' = completed_requests \o
                  [i \in DOMAIN finished |-> finished[i].req]
    /\ pc' = "dis_generate_load"
    /\ DisFrame
    /\ UNCHANGED <<load_generator, requests, current_time, metrics, time_limit,
                   prefill_queue, decode_queue, prefill_slots>>

\* Step 4
DisGenerateLoad ==
    /\ pc = "dis_generate_load"
    /\ Dis_generate_load
    /\ pc' = "dis_prefill_batcher"
    /\ DisFrame
    /\ UNCHANGED <<current_time, metrics, time_limit, prefill_queue,
                   decode_queue, prefill_slots, decode_slots, completed_requests>>

\* Step 5: self.prefill_batcher.add_requests()
DisPrefillBatcher ==
    /\ pc = "dis_prefill_batcher"
    /\ LET st == DisaggregatedPrefillBatcher_add_requests(
                     [queue |-> prefill_queue, current_batch |-> prefill_slots,
                      requests |-> requests])
       IN  /\ prefill_queue' = st.queue
           /\ prefill_slots' = st.current_batch
           /\ requests' = st.requests
    /\ pc' = "dis_decode_batcher"
    /\ DisFrame
    /\ UNCHANGED <<load_generator, current_time, metrics, time_limit,
                   decode_queue, decode_slots, completed_requests>>

\* Step 6: self.decode_batcher.add_requests()
DisDecodeBatcher ==
    /\ pc = "dis_decode_batcher"
    /\ LET st == DisaggregatedDecodeBatcher_add_requests(
                     [queue |-> decode_queue, current_batch |-> decode_slots,
                      requests |-> requests])
       IN  /\ decode_queue' = st.queue
           /\ decode_slots' = st.current_batch
           /\ requests' = st.requests
    /\ pc' = "dis_track_current"
    /\ DisFrame
    /\ UNCHANGED <<load_generator, current_time, metrics, time_limit,
                   prefill_queue, prefill_slots, completed_requests>>

DisTrackCurrent ==
    /\ pc = "dis_track_current"
    /\ metrics' = Dis_track_current_batch(metrics)
    /\ pc' = "dis_advance"
    /\ DisFrame
    /\ UNCHANGED <<load_generator, requests, current_time, time_limit,
                   prefill_queue, decode_queue, prefill_slots, decode_slots,
                   completed_requests>>

\* Step 7: self.current_time += duration
DisAdvance ==
    /\ pc = "dis_advance"
    /\ current_time' = current_time + Dis_get_current_batch_duration
    /\ pc' = "dis_while"
    /\ DisFrame
    /\ UNCHANGED <<load_generator, requests, metrics, time_limit,
                   prefill_queue, decode_queue, prefill_slots, decode_slots,
                   completed_requests>>

\* the load generators a DisaggregatedEngine is built with: one of each class,
\* with the default prefill_time; perturbed output lengths as in
\* examples/disaggregated.py, with a BatchLoadGenerator of unchunked requests
DisLoadGenerators ==
    {g \in LoadGenerators :
        /\ g.costs.prefill_time = 2 * MinStepDuration
        /\ g.costs.target_output_len_std > 0 =>
               /\ g.class = "BatchLoadGenerator"
               /\ g.costs.total_prefill_chunks = 1
        /\ g.class = "BatchLoadGenerator" => g.initial_batch = 1
        /\ g.class = "ConcurrentLoadGenerator" => g.target_concurrency = 1
        /\ g.class = "RequestRateLoadGenerator" =>
               g.generate_every = 3 * MinStepDuration}

DisInit ==
    /\ max_prefill_workers \in 1 .. MaxWorkers
    /\ max_decode_workers \in 1 .. MaxWorkers
    /\ \E g \in DisLoadGenerators : load_generator = Attributes(g)
    /\ prefill_queue = <<>>
    /\ decode_queue = <<>>
    /\ prefill_slots = <<>>
    /\ decode_slots = <<>>
    /\ completed_requests = <<>>
    /\ requests = <<>>
    /\ current_time = 0
    /\ metrics = [times |-> <<0>>, queue_size |-> <<>>, e2e_latency |-> <<>>,
                  ttft |-> <<>>, itl |-> <<>>, osl |-> <<>>]
    /\ time_limit = 0
    /\ pc = "dis_idle"
    \* an Engine's attributes: properties of a DisaggregatedEngine, or absent
    /\ max_batch_size = max_prefill_workers + max_decode_workers
    /\ batcher = "Disaggregated"
    /\ queue = <<>>
    /\ current_batch = <<>>
    /\ tick_calls = 0
    /\ returned = NothingReturned
    /\ twin = NoTwin

DisNext ==
    \/ DisSubmit
    \/ DisRun
    \/ DisWhile
    \/ DisTick
    \/ DisTrackPrevious
    \/ DisMovePrefill
    \/ DisCompleteDecode
    \/ DisGenerateLoad
    \/ DisPrefillBatcher
    \/ DisDecodeBatcher
    \/ DisTrackCurrent
    \/ DisAdvance

DisSpec == DisInit /\ [][DisNext]_vars

(* --------------------- examples/batch_duration_demo.py ----------------- *)
\* run_basic_example: Engine(max_batch_size=2, BatchLoadGenerator(
\* initial_batch=2), StaticBatcher()), the generator with its default costs
\* (prefill_time 2, itl 1, 4 output tokens, 1 chunk), run with --time-limit,
\* 10 when the option is left out

\* the default of --time-limit
DemoTimeLimit == 10

\* target_output_len_tokens of LoadGenerator.__init__
DefaultOutputLen == 4

DemoLoadGenerator ==
    [class |-> "BatchLoadGenerator", initial_batch |-> 2,
     costs |-> [prefill_time |-> 2 * MinStepDuration, itl |-> MinStepDuration,
                target_output_len_tokens |-> DefaultOutputLen,
                total_prefill_chunks |-> 1, target_output_len_std |-> 0]]

DemoInit ==
    /\ max_batch_size = 2
    /\ batcher = "StaticBatcher"
    /\ load_generator = Attributes(DemoLoadGenerator)
    /\ requests = <<>>
    /\ queue = <<>>
    /\ current_batch = <<>>
    /\ current_time = 0
    /\ metrics = [times |-> <<0>>, queue_size |-> <<>>, e2e_latency |-> <<>>,
                  ttft |-> <<>>, itl |-> <<>>, osl |-> <<>>]
    /\ time_limit = 0
    /\ pc = "idle"
    /\ tick_calls = 0
    /\ returned = NothingReturned
    /\ twin = NoTwin
    /\ NoDisaggregatedEngine

\* engine.run(time_limit=time_limit), the limit any whole number of the
\* command line up to the default
DemoRun ==
    /\ pc = "idle"
    /\ time_limit' \in {k * MinStepDuration : k \in 1 .. DemoTimeLimit}
    /\ pc' = "while"
    /\ UNCHANGED <<dis_vars, twin, returned, tick_calls, max_batch_size, batcher,
                   load_generator, requests, queue, current_batch,
                   current_time, metrics>>

DemoNext ==
    \/ DemoRun
    \/ While
    \/ TickBatch
    \/ TrackPreviousBatch
    \/ CompleteRequests
    \/ GenerateLoad
    \/ AddRequests
    \/ TrackCurrentBatch
    \/ AdvanceTime

DemoSpec == DemoInit /\ [][DemoNext]_vars

(* ------------- two engines built with the same arguments --------------- *)
\* An Engine is built and run, once or several times; then a second Engine is
\* built with the same max_batch_size, batcher class and load generator
\* arguments, and run once with the time_limit of the latest call made on the
\* first. twin.first keeps the first engine as it was when the second was built.

\* the arguments run is called with
TimeLimits == {0, (MaxTimeLimit * MinStepDuration) \div 2,
               MaxTimeLimit * MinStepDuration}

\* the attributes of a load generator that its constructor arguments fix
Parameters(g) == [x \in DOMAIN g \ {"last_generation_time"} |-> g[x]]

\* the load generators the two engines are built with
TwinLoadGenerators ==
    {g \in LoadGenerators :
        /\ g.costs.prefill_time = 2 * MinStepDuration
        /\ g.costs.itl = MinStepDuration
        /\ g.costs.target_output_len_tokens = MaxOutputLen - 1
        /\ g.costs.target_output_len_std > 0 =>
               /\ g.class = "BatchLoadGenerator"
               /\ g.initial_batch = 1
               /\ g.costs.total_prefill_chunks = 1
        /\ g.class = "RequestRateLoadGenerator" =>
               g.generate_every \in {MinStepDuration} \cup RoundedUpReciprocals}

\* the first engine; with perturbed output lengths, one of a single slot
TwinInit ==
    /\ Init
    /\ \E g \in TwinLoadGenerators : load_generator = Attributes(g)
    /\ load_generator.target_output_len_std > 0 =>
           max_batch_size = 1 /\ batcher = "StaticBatcher"

\* mutant: run starts the clock again at each call
TwinRun_Restarts ==
    /\ pc = "idle"
    /\ IF twin.first = <<>>
       THEN /\ Len(twin.runs) < 2
            /\ time_limit' \in TimeLimits
       ELSE /\ twin.runs = <<>>
            /\ time_limit' = twin.first[1].runs[Len(twin.first[1].runs)]
    /\ twin' = [twin EXCEPT !.runs = Append(@, time_limit')]
    /\ current_time' = 0
    /\ pc' = "while"
    /\ UNCHANGED <<dis_vars, returned, tick_calls, max_batch_size, batcher,
                   load_generator, requests, queue, current_batch, metrics>>

\* engine.run(time_limit)
TwinRun ==
    /\ pc = "idle"
    /\ IF twin.first = <<>>
       THEN /\ Len(twin.runs) < 2
            /\ time_limit' \in TimeLimits
       ELSE /\ twin.runs = <<>>
            /\ time_limit' = twin.first[1].runs[Len(twin.first[1].runs)]
    /\ twin' = [twin EXCEPT !.runs = Append(@, time_limit')]
    /\ pc' = "while"
    /\ UNCHANGED <<dis_vars, returned, tick_calls, max_batch_size, batcher,
                   load_generator, requests, queue, current_batch,
                   current_time, metrics>>

\* Engine(max_batch_size, load_generator, batcher) with the arguments of the
\* first engine, which is left as it is: in the middle of its only run, or
\* after its latest run has returned
TwinBuild ==
    /\ twin.first = <<>>
    /\ twin.runs # <<>>
    /\ Len(twin.runs) = 1 \/ pc = "idle"
    /\ twin' = [runs |-> <<>>,
                first |-> <<[runs |-> twin.runs, pc |-> pc,
                             load_generator |-> load_generator,
                             requests |-> requests, queue |-> queue,
                             current_batch |-> current_batch,
                             current_time |-> current_time,
                             metrics |-> metrics]>>]
    /\ \E g \in TwinLoadGenerators :
           /\ Parameters(Attributes(g)) = Parameters(load_generator)
           /\ load_generator' = Attributes(g)
    /\ requests' = <<>>
    /\ queue' = <<>>
    /\ current_batch' = <<>>
    /\ current_time' = 0
    /\ metrics' = [times |-> <<0>>, queue_size |-> <<>>, e2e_latency |-> <<>>,
                   ttft |-> <<>>, itl |-> <<>>, osl |-> <<>>]
    /\ time_limit' = 0
    /\ pc' = "idle"
    /\ UNCHANGED <<dis_vars, returned, tick_calls, max_batch_size, batcher>>

TwinNext ==
    \/ TwinRun
    \/ TwinBuild
    \/ While
    \/ TickBatch
    \/ TrackPreviousBatch
    \/ CompleteRequests
    \/ GenerateLoad
    \/ AddRequests
    \/ TrackCurrentBatch
    \/ AdvanceTime

TwinSpec == TwinInit /\ [][TwinNext]_vars

(* ------------------- one run with time to finish ----------------------- *)
\* One call of run on a fresh engine, with a time_limit that leaves a
\* BatchLoadGenerator's batch the time to complete also when the requests go
\* through a single slot one after the other: per request no more than
\* MaxChunks ticks of prefill and three ticks (the longest itl) per token.
LiveTimeLimit ==
    MaxLoad * (MaxChunks + 3 * MaxOutputLen) * MinStepDuration

\* the load generators of such a run: a BatchLoadGenerator of any batch size,
\* output length and number of chunks, and one generator of each other class,
\* all unperturbed and with the default prefill_time and itl
LiveLoadGenerators ==
    {g \in LoadGenerators :
        /\ g.costs \in DefaultCosts
        /\ g.class # "BatchLoadGenerator" =>
               /\ g.costs.target_output_len_tokens = MaxOutputLen
               /\ g.costs.total_prefill_chunks = 1
        /\ g.class = "ConcurrentLoadGenerator" => g.target_concurrency = MaxLoad
        /\ g.class = "RequestRateLoadGenerator" =>
               g.generate_every = 3 * MinStepDuration}

LiveInit ==
    /\ Init
    /\ \E g \in LiveLoadGenerators : load_generator = Attributes(g)

\* engine.run(time_limit) on the engine just built
LiveRun ==
    /\ pc = "idle"
    /\ Len(metrics.times) = 1
    /\ time_limit' = LiveTimeLimit
    /\ pc' = "while"
    /\ UNCHANGED <<dis_vars, twin, returned, tick_calls, max_batch_size,
                   batcher, load_generator, requests, queue, current_batch,
                   current_time, metrics>>

LiveNext ==
    \/ LiveRun
    \/ While
    \/ TickBatch
    \/ TrackPreviousBatch
    \/ CompleteRequests
    \/ GenerateLoad
    \/ AddRequests
    \/ TrackCurrentBatch
    \/ AdvanceTime

\* run is sequential code: a statement that can execute does
LiveSpec == LiveInit /\ [][LiveNext]_vars /\ WF_vars(LiveNext)

(* ====================================================================== *)
(* Properties                                                             *)
(* ====================================================================== *)
BatchReqs == {current_batch[j].req : j \in DOMAIN current_batch}

QueueReqs == Range(queue)

\* the state between two iterations of the loop of Engine.run
StepBoundary == pc \in {"while", "idle"}

\* the state after the batcher has run, before time advances
AfterBatcher == pc \in {"track_current", "advance"}

\* the ticks a request has received so far
Ticks(r) == (r.prefill_chunks_completed - 1) + r.tokens_generated

(* ------------------------------- C1 ----------------------------------- *)
StepOrder ==
    {<<"idle", "while">>, <<"while", "idle">>, <<"while", "tick">>,
     <<"tick", "track_previous">>, <<"track_previous", "complete">>,
     <<"complete", "generate_load">>, <<"generate_load", "add_requests">>,
     <<"add_requests", "track_current">>, <<"track_current", "advance">>,
     <<"advance", "while">>}

C1_StepAction ==
    /\ pc' # pc => <<pc, pc'>> \in StepOrder
    /\ (\E i \in DOMAIN requests : Ticks(requests'[i]) # Ticks(requests[i]))
          => /\ pc = "tick"
             /\ \A i \in DOMAIN requests :
                   Ticks(requests'[i]) =
                       Ticks(requests[i]) + (IF i \in BatchReqs THEN 1 ELSE 0)
    /\ (\/ metrics'.ttft # metrics.ttft
        \/ metrics'.e2e_latency # metrics.e2e_latency
        \/ metrics'.osl # metrics.osl) => pc = "track_previous"
    /\ BatchReqs \ BatchReqs' # {} => pc = "complete"
    /\ (Len(requests') # Len(requests) \/ Len(queue') > Len(queue))
          => pc = "generate_load"
    /\ (BatchReqs' \ BatchReqs # {} \/ Len(queue') < Len(queue))
          => pc = "add_requests"
    /\ (\/ metrics'.queue_size # metrics.queue_size
        \/ metrics'.itl # metrics.itl
        \/ metrics'.times # metrics.times) => pc = "track_current"
    /\ current_time' # current_time => pc = "advance"

C1_State ==
    \* assigned in this step: not ticked in this step
    /\ AfterBatcher =>
          \A i \in BatchReqs :
              requests[i].started_at = current_time => Ticks(requests[i]) = 0
    \* every request that began the step in a slot has been ticked
    /\ pc = "track_previous" => \A i \in BatchReqs : Ticks(requests[i]) >= 1
    \* the slots freed by this step's retirement and the requests enqueued in
    \* this step are there for the batcher
    /\ (AfterBatcher /\ batcher = "IFBatcher") =>
          (queue = <<>> \/ Len(current_batch) = max_batch_size)

\* C1: every iteration of Engine.run mutates in one fixed order: tick the
\* requests in slots, record TTFT/E2E/OSL, retire, enqueue arrivals, fill free
\* slots, record queue size and ITL, advance current_time; so a request
\* assigned in a step is first ticked in the next one, freed slots and new
\* arrivals are visible to the batcher of the same step, and current_time is
\* constant until the last statement of the step.
C1_FixedStepOrder == [](C1_State) /\ [][C1_StepAction]_vars

\* a request enqueued and assigned in one step, after a retirement of that step
\* freed the only slot
C1_Witness ==
    /\ pc = "advance"
    /\ max_batch_size = 1
    /\ current_time > 0
    /\ Len(metrics.e2e_latency) > 0
    /\ metrics.e2e_latency[Len(metrics.e2e_latency)][1] = current_time
    /\ \E i \in BatchReqs :
          /\ requests[i].added_to_queue_at = current_time
          /\ requests[i].started_at = current_time

(* ------------------------------- C2 ----------------------------------- *)
\* S: the sum of get_current_duration() over the first k entries of
\* current_batch that are in prefill
RECURSIVE PrefillDurationSum(_)
PrefillDurationSum(k) ==
    IF k = 0 THEN 0
    ELSE LET r == requests[current_batch[k].req]
         IN  PrefillDurationSum(k - 1)
               + (IF r.tokens_generated = 0
                  THEN r.prefill_time \div r.total_prefill_chunks
                  ELSE 0)

\* M: the largest itl among the requests not in prefill, 0 when there is none
DecodeItlMax ==
    LET itls == {requests[i].itl : i \in {j \in BatchReqs :
                                             requests[j].tokens_generated > 0}}
    IN  IF itls = {} THEN 0 ELSE CHOOSE m \in itls : \A x \in itls : x <= m

StepDuration ==
    LET S == PrefillDurationSum(Len(current_batch))
        M == DecodeItlMax
    IN  CHOOSE d \in {S, M, MinStepDuration} :
            \A x \in {S, M, MinStepDuration} : x <= d

\* C2: the last statement of a step adds exactly max(S, M, 1) to current_time,
\* S the sum of the prefill durations and M the largest itl of the decoding
\* requests of current_batch; nothing else changes current_time.
C2_StepDuration ==
    [][IF pc = "advance"
       THEN current_time' = current_time + StepDuration
       ELSE current_time' = current_time]_vars

\* time has advanced by the sum of two prefill durations, which exceeds each of
\* them and the floor
C2_Witness ==
    /\ pc = "while"
    /\ Len(current_batch) = 2
    /\ \A i \in BatchReqs :
          /\ requests[i].tokens_generated = 0
          /\ requests[i].started_at = 0
          /\ requests[i].prefill_time \div requests[i].total_prefill_chunks
                > MinStepDuration
    /\ current_time = PrefillDurationSum(2)

(* ------------------------------- C3 ----------------------------------- *)
C3_State ==
    /\ \A i \in DOMAIN requests :
          /\ requests[i].tokens_generated >= 0
          /\ requests[i].tokens_generated <= requests[i].target_output_len_tokens
    \* outside the tick-to-retirement part of a step no slot holds a completed
    \* request, and a completed request is in no queue
    /\ \A i \in DOMAIN requests :
          requests[i].tokens_generated = requests[i].target_output_len_tokens =>
              /\ i \notin QueueReqs
              /\ pc \notin {"track_previous", "complete"} => i \notin BatchReqs

C3_Action ==
    \A i \in DOMAIN requests :
        requests'[i].tokens_generated # requests[i].tokens_generated =>
            /\ pc = "tick"
            /\ requests'[i].tokens_generated = requests[i].tokens_generated + 1

\* C3: tokens_generated of every request never decreases, grows by at most one
\* per step (in the tick of the step only), never exceeds
\* target_output_len_tokens, and the request leaves current_batch in the step
\* in which it reaches it.
C3_TokensBounded == [](C3_State) /\ [][C3_Action]_vars

\* a request of more than one token was completed and retired in this step
C3_Witness ==
    /\ pc = "generate_load"
    /\ \E i \in DOMAIN requests :
          /\ requests[i].target_output_len_tokens >= 2
          /\ requests[i].tokens_generated = requests[i].target_output_len_tokens
          /\ i \notin BatchReqs
          /\ Len(metrics.e2e_latency) > 0
          /\ metrics.e2e_latency[Len(metrics.e2e_latency)] =
                <<current_time, current_time - requests[i].added_to_queue_at>>

(* ------------------------------- C4 ----------------------------------- *)
\* C4: at the end of every step the keys of current_batch are slots in
\* [0, max_batch_size), every request in it is incomplete, no request is held
\* by two slots and no request is both queued and in a slot.
C4_BatchWellFormed ==
    StepBoundary =>
        /\ \A j \in DOMAIN current_batch :
              /\ current_batch[j].slot \in Int
              /\ current_batch[j].slot >= 0
              /\ current_batch[j].slot < max_batch_size
        /\ \A j, k \in DOMAIN current_batch :
              j # k => /\ current_batch[j].slot # current_batch[k].slot
                       /\ current_batch[j].req # current_batch[k].req
        /\ Len(current_batch) <= max_batch_size
        /\ \A i \in BatchReqs :
              requests[i].tokens_generated < requests[i].target_output_len_tokens
        /\ BatchReqs \cap QueueReqs = {}

\* a step ended with every slot taken and requests still waiting
C4_Witness ==
    /\ pc = "while"
    /\ max_batch_size = 2
    /\ Len(current_batch) = 2
    /\ queue # <<>>
    /\ current_time > 0

(* ------------------------------- C5 ----------------------------------- *)
Started(i) == requests[i].started_at # None

IsPrefix(s, u) == Len(s) <= Len(u) /\ SubSeq(u, 1, Len(s)) = s

IsSuffix(s, u) == Len(s) <= Len(u) /\ SubSeq(u, Len(u) - Len(s) + 1, Len(u)) = s

\* requests are created and enqueued in the order of their index
C5_State ==
    /\ \A k \in 1 .. (Len(queue) - 1) : queue[k] < queue[k + 1]
    /\ \A i \in QueueReqs : ~Started(i)
    /\ \A a, b \in DOMAIN requests :
          a < b =>
              /\ requests[a].added_to_queue_at <= requests[b].added_to_queue_at
              /\ Started(b) =>
                    /\ Started(a)
                    /\ requests[a].started_at <= requests[b].started_at
              /\ ~(b \in BatchReqs /\ a \in QueueReqs)

C5_Action ==
    \* the queue grows at its tail, by the requests just created, and shrinks
    \* at its head
    /\ IsPrefix(queue, queue') \/ IsSuffix(queue', queue)
    /\ Len(requests') > Len(requests) =>
          queue' = queue \o [k \in 1 .. (Len(requests') - Len(requests)) |->
                                Len(requests) + k]
    \* the requests that leave the queue are those that enter a slot, stamped
    \* with the time of the assignment
    /\ \A i \in DOMAIN requests :
          (i \in QueueReqs /\ i \notin QueueReqs') <=> (i \in BatchReqs' \ BatchReqs)
    /\ \A i \in DOMAIN requests :
          (i \in BatchReqs' \ BatchReqs) =>
              requests'[i].started_at = current_time
    /\ \A i \in DOMAIN requests :
          requests'[i].started_at # requests[i].started_at =>
              i \in BatchReqs' \ BatchReqs

\* C5: under each batcher requests enter the queue at its tail and leave it at
\* its head: a request enqueued before another is assigned no later, is never
\* still queued while the other is in a slot, and started_at is current_time
\* at the assignment.
C5_Fifo == [](C5_State) /\ [][C5_Action]_vars

\* two requests enqueued together, the first assigned strictly before the second
C5_Witness ==
    \E a, b \in DOMAIN requests :
        /\ a < b
        /\ requests[a].added_to_queue_at = requests[b].added_to_queue_at
        /\ Started(a)
        /\ Started(b)
        /\ requests[a].started_at < requests[b].started_at
        /\ b \in BatchReqs

(* ------------------------------- C6 ----------------------------------- *)
FreeSlots == (0 .. (max_batch_size - 1)) \ {current_batch[j].slot : j \in DOMAIN current_batch}

\* the batcher moved the first k requests of the queue into free slots, one
\* slot each, after the entries current_batch had
MovedFromHead(k) ==
    /\ queue' = SubSeq(queue, k + 1, Len(queue))
    /\ Len(current_batch') = Len(current_batch) + k
    /\ IsPrefix(current_batch, current_batch')
    /\ \A j \in 1 .. k :
          /\ current_batch'[Len(current_batch) + j].req = queue[j]
          /\ current_batch'[Len(current_batch) + j].slot \in FreeSlots
    /\ \A j, l \in 1 .. k :
          j # l => current_batch'[Len(current_batch) + j].slot
                     # current_batch'[Len(current_batch) + l].slot
    /\ \A i \in BatchReqs : requests'[i] = requests[i]

C6_Action ==
    (pc = "add_requests" /\ batcher = "StaticBatcher") =>
        IF current_batch # <<>>
        THEN queue' = queue /\ current_batch' = current_batch
        ELSE MovedFromHead(Min2(Len(queue), max_batch_size))

\* C6: StaticBatcher.add_requests changes nothing while a slot is occupied, and
\* with all slots empty moves min(len(queue), max_batch_size) requests from the
\* head of the queue into distinct slots.
C6_StaticBatcher == [][C6_Action]_vars

\* the batcher has just left a free slot empty and a request waiting, because
\* another slot is occupied
C6_Witness ==
    /\ pc = "track_current"
    /\ batcher = "StaticBatcher"
    /\ queue # <<>>
    /\ current_batch # <<>>
    /\ Len(current_batch) < max_batch_size
    /\ \A i \in BatchReqs : requests[i].started_at < current_time

(* ------------------------------- C7 ----------------------------------- *)
\* C7: under StaticBatcher no end-of-step state mixes a request in prefill with
\* a decoding one, and all requests of current_batch were started together.
C7_StaticNoMix ==
    (StepBoundary /\ batcher = "StaticBatcher") =>
        /\ ~ /\ \E i \in BatchReqs : is_in_prefill(requests[i])
             /\ \E i \in BatchReqs : ~is_in_prefill(requests[i])
        /\ \A i, j \in BatchReqs : requests[i].started_at = requests[j].started_at

\* of two requests started together the shorter one has retired, the longer is
\* decoding alone and a request is waiting
C7_Witness ==
    /\ pc = "while"
    /\ batcher = "StaticBatcher"
    /\ max_batch_size = 2
    /\ Len(current_batch) = 1
    /\ queue # <<>>
    /\ \E i \in BatchReqs, j \in DOMAIN requests :
          /\ j \notin BatchReqs
          /\ requests[j].started_at = requests[i].started_at
          /\ requests[j].target_output_len_tokens
                < requests[i].target_output_len_tokens
          /\ requests[i].tokens_generated > 0

(* ------------------------------- C8 ----------------------------------- *)
C8_Action ==
    (pc = "add_requests" /\ batcher = "IFBatcher") =>
        /\ MovedFromHead(Min2(Len(queue), Cardinality(FreeSlots)))
        /\ queue' = <<>> \/ Len(current_batch') = max_batch_size

\* C8: IFBatcher.add_requests moves min(len(queue), free slots) requests from
\* the head of the queue into free slots whatever the occupied slots are doing,
\* leaves the occupied slots alone, and returns with the queue empty or every
\* slot occupied.
C8_IFBatcher == [][C8_Action]_vars

\* a request has just joined a decoding one; the batch is full and one waits
C8_Witness ==
    /\ pc = "track_current"
    /\ batcher = "IFBatcher"
    /\ queue # <<>>
    /\ Len(current_batch) = max_batch_size
    /\ \E i, j \in BatchReqs :
          /\ requests[i].tokens_generated > 0
          /\ requests[i].started_at < current_time
          /\ requests[j].started_at = current_time

(* ------------------------------- C9 ----------------------------------- *)
C9_Action ==
    batcher = "IFBatcherWithOnePrefillOnly" =>
        /\ pc = "add_requests" =>
              IF \/ \E i \in BatchReqs : requests[i].tokens_generated = 0
                 \/ queue = <<>>
                 \/ FreeSlots = {}
              THEN /\ queue' = queue
                   /\ current_batch' = current_batch
                   /\ requests' = requests
              ELSE MovedFromHead(1)
        \* whatever the statement, at most one slot is filled
        /\ Cardinality({s \in FreeSlots : \E j \in DOMAIN current_batch' :
                                              current_batch'[j].slot = s}) <= 1

\* C9: IFBatcherWithOnePrefillOnly.add_requests assigns nothing while a request
\* of current_batch is in prefill, and otherwise the head of the queue alone,
\* if there is one and a slot is free; at most one slot is filled per step.
C9_OnePrefillOnly == [][C9_Action]_vars

\* the batcher has just left a free slot empty and a request waiting, because a
\* request started earlier is still in prefill
C9_Witness ==
    /\ pc = "track_current"
    /\ batcher = "IFBatcherWithOnePrefillOnly"
    /\ queue # <<>>
    /\ Len(current_batch) < max_batch_size
    /\ \E i \in BatchReqs :
          /\ requests[i].tokens_generated = 0
          /\ requests[i].started_at < current_time
    /\ \A i \in BatchReqs : requests[i].started_at < current_time

(* ------------------------------- C10 ---------------------------------- *)
\* C10: under IFBatcherWithOnePrefillOnly at most one request of current_batch
\* is in prefill at the end of a step, whether prefill is read as
\* is_in_prefill() or as prefill chunks remaining.
C10_AtMostOnePrefill ==
    (StepBoundary /\ batcher = "IFBatcherWithOnePrefillOnly") =>
        /\ Cardinality({i \in BatchReqs : is_in_prefill(requests[i])}) <= 1
        /\ Cardinality({i \in BatchReqs :
               requests[i].prefill_chunks_completed
                   < requests[i].total_prefill_chunks}) <= 1

\* a request is in its second step of prefill beside a decoding one, while a
\* request waits
C10_Witness ==
    /\ pc = "while"
    /\ batcher = "IFBatcherWithOnePrefillOnly"
    /\ queue # <<>>
    /\ Len(current_batch) = 2
    /\ \E i, j \in BatchReqs :
          /\ requests[i].tokens_generated > 0
          /\ requests[j].tokens_generated = 0
          /\ requests[j].prefill_chunks_completed = 2

(* ------------------------------- C11 ---------------------------------- *)
\* the requests of the batch, in dict order, that satisfy P
BatchSelect(P(_)) == SelectSeq(BatchValues(current_batch, requests), P)

\* one (time, latency) sample per request of rs, taken now
LatencySamples(rs) ==
    [k \in DOMAIN rs |-> <<current_time, current_time - rs[k].added_to_queue_at>>]

HasFirstToken(r) == r.tokens_generated >= 1

\* ticked to its first token in this step, not yet tracked
FirstTokenPending(i) ==
    /\ pc = "track_previous"
    /\ i \in BatchReqs
    /\ requests[i].tokens_generated = 1

C11_State ==
    \* one sample per request that has its first token, none for the others
    /\ Len(metrics.ttft) =
          Cardinality({i \in DOMAIN requests :
                          HasFirstToken(requests[i]) /\ ~FirstTokenPending(i)})
    \* and it is a sample of that request, taken after its start
    /\ \A i \in DOMAIN requests :
          (HasFirstToken(requests[i]) /\ ~FirstTokenPending(i)) =>
              \E k \in DOMAIN metrics.ttft :
                  /\ metrics.ttft[k][1] - metrics.ttft[k][2]
                        = requests[i].added_to_queue_at
                  /\ metrics.ttft[k][1] > requests[i].started_at
                  /\ metrics.ttft[k][1] <= current_time

C11_Action ==
    \* the tick that yields the first token leaves the sample pending
    /\ \A i \in DOMAIN requests :
          (~HasFirstToken(requests[i]) /\ HasFirstToken(requests'[i])) =>
              /\ pc = "tick"
              /\ i \in BatchReqs'
              /\ requests'[i].tokens_generated = 1
              /\ requests'[i].prefill_chunks_completed
                    = requests'[i].total_prefill_chunks
    \* tracking appends the pending samples, stamped with the step's time
    /\ pc = "track_previous" =>
          metrics'.ttft = metrics.ttft \o
              LatencySamples(BatchSelect(LAMBDA r : r.tokens_generated = 1))
    /\ pc # "track_previous" => metrics'.ttft = metrics.ttft

\* C11: the TTFT log holds no sample for a request before its first token and
\* exactly one from then on: it is appended in the step whose tick raises
\* tokens_generated to 1, stamped with that step's current_time, its value
\* current_time - added_to_queue_at; chunked requests and requests with
\* target_output_len_tokens = 1 included.
C11_TtftOnce == [](C11_State) /\ [][C11_Action]_vars

\* a chunked request of one output token whose first token has been tracked,
\* next to a request tracked in an earlier step
C11_Witness ==
    /\ pc = "complete"
    /\ Len(metrics.ttft) >= 2
    /\ metrics.ttft[1][1] < current_time
    /\ \E i \in BatchReqs :
          /\ requests[i].total_prefill_chunks = 2
          /\ requests[i].target_output_len_tokens = 1
          /\ requests[i].tokens_generated = 1
          /\ requests[i].added_to_queue_at < requests[i].started_at
          /\ metrics.ttft[Len(metrics.ttft)]
                = <<current_time, current_time - requests[i].added_to_queue_at>>

(* ------------------------------- C12 ---------------------------------- *)
IsComplete(r) == r.tokens_generated = r.target_output_len_tokens

\* ticked to its last token in this step, not yet tracked
CompletionPending(i) ==
    /\ pc = "track_previous"
    /\ i \in BatchReqs
    /\ IsComplete(requests[i])

Tracked == {i \in DOMAIN requests : IsComplete(requests[i]) /\ ~CompletionPending(i)}

C12_State ==
    /\ Len(metrics.e2e_latency) = Cardinality(Tracked)
    /\ Len(metrics.osl) = Cardinality(Tracked)
    /\ \A i \in Tracked :
          \E k \in DOMAIN metrics.e2e_latency :
              /\ metrics.e2e_latency[k][1] - metrics.e2e_latency[k][2]
                    = requests[i].added_to_queue_at
              /\ metrics.e2e_latency[k][1] > requests[i].started_at
              /\ metrics.osl[k] = <<metrics.e2e_latency[k][1],
                                    requests[i].target_output_len_tokens>>
    \* tracked before the retirement: only complete() takes it out of its slot
    /\ pc = "complete" =>
          \A i \in BatchReqs : IsComplete(requests[i]) => i \in Tracked

C12_Action ==
    /\ \A i \in DOMAIN requests :
          (~IsComplete(requests[i]) /\ IsComplete(requests'[i])) =>
              (pc = "tick" /\ i \in BatchReqs')
    /\ pc = "track_previous" =>
          /\ metrics'.e2e_latency = metrics.e2e_latency \o
                LatencySamples(BatchSelect(IsComplete))
          /\ metrics'.osl = metrics.osl \o
                [k \in DOMAIN BatchSelect(IsComplete) |->
                    <<current_time,
                      BatchSelect(IsComplete)[k].target_output_len_tokens>>]
          /\ BatchReqs' = BatchReqs
    /\ pc # "track_previous" =>
          /\ metrics'.e2e_latency = metrics.e2e_latency
          /\ metrics'.osl = metrics.osl

\* C12: every request gets exactly one E2E sample and one OSL sample, in the
\* step whose tick brings tokens_generated to target_output_len_tokens and
\* before it is retired; the E2E value is current_time - added_to_queue_at,
\* the OSL value the target length; an incomplete request has no such sample.
C12_E2eOnce == [](C12_State) /\ [][C12_Action]_vars

\* a request that waited in the queue, completed and tracked, still in its slot
C12_Witness ==
    /\ pc = "complete"
    /\ \E i \in BatchReqs :
          /\ IsComplete(requests[i])
          /\ requests[i].target_output_len_tokens >= 2
          /\ requests[i].added_to_queue_at < requests[i].started_at
          /\ metrics.e2e_latency[Len(metrics.e2e_latency)]
                = <<current_time, current_time - requests[i].added_to_queue_at>>
          /\ metrics.osl[Len(metrics.osl)]
                = <<current_time, requests[i].target_output_len_tokens>>
    /\ \E i \in DOMAIN requests : ~IsComplete(requests[i])

(* ------------------------------- C13 ---------------------------------- *)
IsConcurrent == load_generator.class = "ConcurrentLoadGenerator"

\* target_concurrency - occupied slots - queued requests
Shortfall ==
    load_generator.target_concurrency - Cardinality(get_occupied_slots) - Len(queue)

C13_Action ==
    (IsConcurrent /\ pc = "generate_load") =>
        LET n == Max2(Shortfall, 0)
        IN  /\ Len(requests') = Len(requests) + n
            /\ queue' = queue \o [k \in 1 .. n |-> Len(requests) + k]
            /\ \A k \in 1 .. n :
                  /\ requests'[Len(requests) + k].added_to_queue_at = current_time
                  /\ Ticks(requests'[Len(requests) + k]) = 0
            /\ Len(queue') + Cardinality(OccupiedSlots(current_batch'))
                  <= load_generator.target_concurrency

C13_State ==
    IsConcurrent =>
        Len(queue) + Cardinality(get_occupied_slots)
            <= load_generator.target_concurrency

\* C13: in a run that starts with an empty engine, every call of
\* ConcurrentLoadGenerator.generate_load enqueues exactly
\* max(target_concurrency - occupied slots - len(queue), 0) requests, and
\* right after it (as at any other time) len(queue) + occupied slots is at
\* most target_concurrency.
C13_ConcurrentTopUp == [](C13_State) /\ [][C13_Action]_vars

\* a top-up: a request of an earlier step is still in its slot, and one has
\* just been enqueued for a retired one
C13_Witness ==
    /\ IsConcurrent
    /\ pc = "add_requests"
    /\ current_time > 0
    /\ \E i \in BatchReqs : requests[i].added_to_queue_at < current_time
    /\ \E j \in QueueReqs : requests[j].added_to_queue_at = current_time
    /\ \E i \in DOMAIN requests : IsComplete(requests[i])
    /\ Len(queue) + Cardinality(get_occupied_slots)
          = load_generator.target_concurrency

(* ------------------------------- C14 ---------------------------------- *)
IsRequestRate == load_generator.class = "RequestRateLoadGenerator"

\* floor(t * request_rate) for the rate request_rate = 1 / generate_every
RateFloor(t) == t \div load_generator.generate_every

C14_State ==
    IsRequestRate => Len(requests) = RateFloor(load_generator.last_generation_time)

C14_Action ==
    (IsRequestRate /\ pc = "generate_load") =>
        /\ load_generator'.last_generation_time = current_time
        /\ Len(requests') = RateFloor(current_time)
        /\ Len(queue') - Len(queue) = Len(requests') - Len(requests)

\* C14: with a RequestRateLoadGenerator of rate r > 0 started at time 0, the
\* number of requests created up to and including a generate_load call at time
\* t is floor(t * r), however many calls came before and however they were
\* spaced.
C14_RateCount == [](C14_State) /\ [][C14_Action]_vars

(* ------------------------------- C15 ---------------------------------- *)
IsBatch == load_generator.class = "BatchLoadGenerator"

\* the generate_load of the first step has run
FirstLoadDone ==
    current_time > 0 \/ pc \in {"add_requests", "track_current", "advance"}

C15_State ==
    IsBatch =>
        /\ Len(requests) = IF FirstLoadDone THEN load_generator.initial_batch ELSE 0
        /\ \A i \in DOMAIN requests : requests[i].added_to_queue_at = 0

C15_Action ==
    (IsBatch /\ (Len(requests') # Len(requests) \/ Len(queue') > Len(queue))) =>
        /\ pc = "generate_load"
        /\ current_time = 0
        /\ requests = <<>>
        /\ queue' = [k \in 1 .. load_generator.initial_batch |-> k]

\* C15: with BatchLoadGenerator(initial_batch = n) and at least one step,
\* exactly n requests are created over the whole run, all of them in the first
\* step (current_time = 0) with added_to_queue_at = 0; no later step enqueues.
C15_BatchOnce == [](C15_State) /\ [][C15_Action]_vars

\* a later call of generate_load has returned without enqueuing, while
\* requests of the batch still wait
C15_Witness ==
    /\ IsBatch
    /\ load_generator.initial_batch = MaxLoad
    /\ pc = "add_requests"
    /\ current_time > 0
    /\ Len(requests) = MaxLoad
    /\ queue # <<>>

(* ------------------------------- C16 ---------------------------------- *)
InStep == ~StepBoundary

\* the steps begun since the engine was built: one queue_size sample each
StepsBegun ==
    Len(metrics.queue_size) + (IF InStep /\ pc # "advance" THEN 1 ELSE 0)

StepsFinished == StepsBegun - (IF InStep THEN 1 ELSE 0)

\* math.ceil of a time, in ticks
Ceil(t) == (t + MinStepDuration - 1) \div MinStepDuration

C16_State ==
    /\ current_time >= StepsFinished * MinStepDuration
    /\ InStep => StepsBegun <= Ceil(time_limit)

C16_Action ==
    /\ current_time' >= current_time
    /\ pc = "advance" => current_time' >= current_time + MinStepDuration
    /\ pc # "advance" => current_time' = current_time
    /\ (pc = "while" /\ pc' = "tick") => current_time < time_limit
    \* no statement of a step blocks or loops back: the step moves on
    /\ (InStep /\ pc' # pc) => <<pc, pc'>> \in StepOrder /\ pc' # "tick"

\* C16: Engine.run terminates for every finite time_limit, generator and
\* batcher: a step advances current_time by at least 1.0, also with an empty
\* queue and batch, so current_time strictly increases from step to step and
\* no more than ceil(time_limit) steps are ever begun.
C16_Terminates == [](C16_State) /\ [][C16_Action]_vars

\* a run of an engine that never holds a request, at its last step
C16_Witness ==
    /\ pc = "advance"
    /\ requests = <<>>
    /\ time_limit < MaxTimeLimit * MinStepDuration
    /\ StepsBegun = Ceil(time_limit)
    /\ StepsBegun * MinStepDuration > time_limit
    /\ current_time + get_current_batch_duration(current_batch, requests)
          >= time_limit

(* ------------------------------- C17 ---------------------------------- *)
C17_State ==
    \* a step is in progress only if it began before the limit
    /\ InStep => current_time < time_limit
    \* run has returned (or was never called): the limit is reached
    /\ pc = "idle" => current_time >= time_limit

C17_Action ==
    \* run returns from the loop test only, never from the inside of a step
    /\ (pc' = "idle" /\ pc # "idle") => (pc = "while" /\ current_time >= time_limit)
    /\ (pc = "while" /\ current_time >= time_limit) => pc' = "idle"
    /\ (pc = "while" /\ current_time < time_limit) => pc' = "tick"
    \* the call and the loop test change nothing of the engine
    /\ StepBoundary =>
          UNCHANGED <<requests, queue, current_batch, current_time, metrics,
                      load_generator>>

\* C17: run begins a step only while current_time < time_limit and finishes
\* every step it begins: when it returns current_time >= time_limit and the
\* last step began before time_limit; called with current_time >= time_limit
\* it leaves the queue, the batch, the time and every metric log unchanged.
C17_RunBounds == [](C17_State) /\ [][C17_Action]_vars

\* run(0) has returned on an engine that an earlier run left with work
C17_Witness ==
    /\ pc = "idle"
    /\ time_limit = 0
    /\ current_time > 0
    /\ current_batch # <<>>
    /\ queue # <<>>
    /\ metrics.times[Len(metrics.times)] = current_time

(* ------------------------------- C18 ---------------------------------- *)
\* the request driven on its own
TheRequest == requests[1]

ChunksRemaining(r) == r.prefill_chunks_completed < r.total_prefill_chunks

\* C18, as stated: for a ChunkedContextRequest in any reachable state,
\* is_in_prefill() is true exactly when prefill_chunks_completed is below
\* total_prefill_chunks.
C18_InPrefillIffChunksRemain ==
    IsChunkedContextRequest(TheRequest) =>
        (is_in_prefill(TheRequest) <=> ChunksRemaining(TheRequest))

\* C18, amended: is_in_prefill() is true exactly while no token has been
\* generated, that is until the tick number total_prefill_chunks: whenever
\* chunks remain, and also in the state prefill_chunks_completed =
\* total_prefill_chunks that precedes the first token.
C18_InPrefillUntilFirstToken ==
    IsChunkedContextRequest(TheRequest) =>
        /\ is_in_prefill(TheRequest) <=> tick_calls < TheRequest.total_prefill_chunks
        /\ is_in_prefill(TheRequest) <=> TheRequest.tokens_generated = 0
        /\ ChunksRemaining(TheRequest) <=>
              tick_calls < TheRequest.total_prefill_chunks - 1
        /\ ChunksRemaining(TheRequest) => is_in_prefill(TheRequest)

\* every chunk counted, no token yet: in prefill with no chunk remaining
C18_Witness ==
    /\ pc = "request"
    /\ IsChunkedContextRequest(TheRequest)
    /\ TheRequest.total_prefill_chunks = 2
    /\ tick_calls = 1
    /\ ~ChunksRemaining(TheRequest)
    /\ is_in_prefill(TheRequest)

(* ------------------------------- C19 ---------------------------------- *)
\* the ticks that bring a fresh request to its target: (N - 1) + T
TicksToCompletion(r) ==
    (r.total_prefill_chunks - 1) + r.target_output_len_tokens

Counters == {"tokens_generated", "prefill_chunks_completed"}

C20_Action ==
    tick_calls' = tick_calls + 1 =>
        LET r == TheRequest
            rr == requests'[1]
        IN  /\ DOMAIN rr = DOMAIN r
            /\ \A f \in DOMAIN r \ Counters : rr[f] = r[f]
            /\ IF IsChunkedContextRequest(r) /\ ChunksRemaining(r)
               THEN /\ rr.prefill_chunks_completed = r.prefill_chunks_completed + 1
                    /\ rr.tokens_generated = r.tokens_generated
               ELSE /\ rr.tokens_generated = r.tokens_generated + 1
                    /\ IsChunkedContextRequest(r) =>
                          rr.prefill_chunks_completed = r.prefill_chunks_completed

C20_State ==
    IsChunkedContextRequest(TheRequest) =>
        TheRequest.prefill_chunks_completed <= TheRequest.total_prefill_chunks

\* C20: every call of tick() changes exactly one counter, by exactly +1, and
\* nothing else: prefill_chunks_completed while it is below
\* total_prefill_chunks, tokens_generated otherwise (and always for a base
\* Request); id, prefill_time, itl, target_output_len_tokens,
\* added_to_queue_at, started_at and total_prefill_chunks keep their values,
\* and prefill_chunks_completed never exceeds total_prefill_chunks.
C20_TickFrame == [](C20_State) /\ [][C20_Action]_vars

\* a chunked request after a chunk tick and a token tick
C20_Witness ==
    /\ pc = "request"
    /\ IsChunkedContextRequest(TheRequest)
    /\ TheRequest.total_prefill_chunks = 2
    /\ TheRequest.prefill_chunks_completed = 2
    /\ TheRequest.tokens_generated = 1
    /\ tick_calls = 2

\* ---------------------------------------------------------------------------
\* C21
\* ---------------------------------------------------------------------------

\* the duration C21 states, from the fields of the request
StatedDuration(r) ==
    IF r.tokens_generated = 0
    THEN IF IsChunkedContextRequest(r)
         THEN r.prefill_time \div r.total_prefill_chunks
         ELSE r.prefill_time
    ELSE r.itl

C21_Action ==
    (returned' # returned /\ returned'.call = "get_current_duration") =>
        /\ returned'.value = StatedDuration(TheRequest)
        /\ requests' = requests
        /\ tick_calls' = tick_calls

\* C21: get_current_duration() returns prefill_time (base Request) or
\* prefill_time / total_prefill_chunks (ChunkedContextRequest) while the
\* request has no token yet and itl afterwards, and leaves the request as it
\* was.
C21_Duration == [][C21_Action]_vars

\* the duration of one chunk of two has been returned for a request that is
\* still in prefill after its first chunk
C21_Witness ==
    /\ pc = "request"
    /\ returned # NothingReturned
    /\ returned.call = "get_current_duration"
    /\ IsChunkedContextRequest(TheRequest)
    /\ TheRequest.total_prefill_chunks = 2
    /\ TheRequest.prefill_chunks_completed = 1
    /\ TheRequest.tokens_generated = 0
    /\ returned.value = TheRequest.prefill_time \div 2
    /\ returned.value # TheRequest.prefill_time

\* ---------------------------------------------------------------------------
\* C22
\* ---------------------------------------------------------------------------

\* the requests held by a pool, in the order of its dict
PoolReqs(pool) == [i \in DOMAIN pool |-> pool[i].req]

\* every place of the DisaggregatedEngine a request can be in, end to end
Places ==
    prefill_queue \o PoolReqs(prefill_slots) \o decode_queue
        \o PoolReqs(decode_slots) \o completed_requests

NoDuplicates(s) == \A i, j \in DOMAIN s : s[i] = s[j] => i = j

Entered == Range(Places)

\* at the loop test: between two steps, and after the last one
DisStepBoundary == pc \in {"dis_while", "dis_idle"}

C22_State ==
    /\ NoDuplicates(Places)
    /\ Entered \subseteq DOMAIN requests
    /\ DisStepBoundary =>
           \A i \in Entered :
               not_completed(requests[i]) =>
                   \E j \in DOMAIN Places :
                       /\ Places[j] = i
                       /\ j <= Len(Places) - Len(completed_requests)

C22_Action ==
    /\ Entered \subseteq Entered'
    /\ Len(prefill_queue') > Len(prefill_queue) => Entered' # Entered

\* C22: every request that has entered the DisaggregatedEngine is in exactly
\* one of prefill_queue, prefill_slots, decode_queue, decode_slots and
\* completed_requests, and once only: no request is in two places or twice in
\* one, none that entered ever leaves them all, and between steps a request
\* that is not complete is in a queue or a slot.
C22_OnePlace == [](C22_State) /\ [][C22_Action]_vars

\* between two steps: one request completed, one in a decode slot, one in a
\* prefill slot
C22_Witness ==
    /\ pc = "dis_while"
    /\ Len(completed_requests) = 1
    /\ Len(decode_slots) = 1
    /\ Len(prefill_slots) = 1
    /\ Cardinality(Entered) = 3

\* ---------------------------------------------------------------------------
\* C23
\* ---------------------------------------------------------------------------

C23_State ==
    \A i \in Entered :
        requests[i].tokens_generated <= requests[i].target_output_len_tokens

C23_Action ==
    \A i \in Entered :
        requests'[i].tokens_generated >= requests[i].tokens_generated

\* C23: for every request the DisaggregatedEngine handles, whatever its
\* target_output_len_tokens >= 1, tokens_generated never decreases and never
\* exceeds target_output_len_tokens, in a queue, in a slot or in
\* completed_requests.
C23_TokensBounded == [](C23_State) /\ [][C23_Action]_vars

\* the part of C23 that needs no lower bound on the target: the count never
\* decreases, and it stays within the target for targets of 2 and more
C23_BoundedFromTwo ==
    \A i \in Entered :
        requests[i].target_output_len_tokens >= 2 =>
            requests[i].tokens_generated <= requests[i].target_output_len_tokens

\* ---------------------------------------------------------------------------
\* C24
\* ---------------------------------------------------------------------------

Queued == Range(prefill_queue) \cup Range(decode_queue)

\* the requests of a pool that satisfy P, in the order of the pool
PoolSelect(pool, P(_)) == PoolReqs(SelectSeq(pool, LAMBDA e : P(requests[e.req])))

HasToken(r) == r.tokens_generated > 0

AtTarget(r) == r.tokens_generated >= r.target_output_len_tokens

C24_State ==
    /\ \A i \in Range(decode_queue) : requests[i].tokens_generated = 1
    /\ \A i \in Range(prefill_queue) : requests[i].tokens_generated = 0
    /\ DisStepBoundary =>
           \A i \in Range(PoolReqs(prefill_slots)) :
               requests[i].tokens_generated = 0

C24_Action ==
    /\ pc = "dis_move_prefill" =>
           /\ decode_queue' = decode_queue \o PoolSelect(prefill_slots, HasToken)
           /\ prefill_slots' =
                  SelectSeq(prefill_slots,
                            LAMBDA e : requests[e.req].tokens_generated = 0)
    /\ pc = "dis_complete" =>
           /\ completed_requests' =
                  completed_requests \o PoolSelect(decode_slots, AtTarget)
           /\ decode_slots' =
                  SelectSeq(decode_slots, LAMBDA e : ~AtTarget(requests[e.req]))
    /\ IsPrefix(completed_requests, completed_requests')
    /\ \A i \in Queued :
           /\ requests'[i].tokens_generated = requests[i].tokens_generated
           /\ requests'[i].prefill_chunks_completed =
                  requests[i].prefill_chunks_completed

\* C24: in each DisaggregatedEngine step, once the slots of both pools have
\* been ticked, every request of prefill_slots that has its first token leaves
\* its slot for the tail of decode_queue in that step, and every request of
\* decode_slots with tokens_generated >= target_output_len_tokens leaves its
\* slot for the tail of completed_requests; so a request in decode_queue has
\* exactly one token, a request in prefill_queue (and, between steps, in
\* prefill_slots) has none, completed_requests only grows at its tail, and a
\* request waiting in a queue is never ticked.
C24_Pipeline == [](C24_State) /\ [][C24_Action]_vars

\* between two steps: a completed request, and a request with its first token
\* waiting in decode_queue for a decode slot
C24_Witness ==
    /\ pc = "dis_while"
    /\ Len(completed_requests) >= 1
    /\ Len(decode_queue) >= 1
    /\ Len(decode_slots) = max_decode_workers
    /\ requests[decode_queue[1]].tokens_generated = 1

\* ---------------------------------------------------------------------------
\* C25
\* ---------------------------------------------------------------------------

C25_State ==
    DisStepBoundary => \A i \in DOMAIN requests : i \in Entered

C25_Action ==
    pc = "dis_generate_load" =>
        prefill_queue' =
            prefill_queue \o [i \in 1 .. Len(requests') - Len(requests) |->
                                  Len(requests) + i]

\* C25: every request the load generator creates in a step of
\* DisaggregatedEngine.run is appended to the intake queue of the engine, in
\* creation order: generate_load extends prefill_queue by the new requests,
\* and between steps every request created so far is in prefill_queue or
\* further along the pipeline.
C25_Intake == [](C25_State) /\ [][C25_Action]_vars

\* ---------------------------------------------------------------------------
\* C26
\* ---------------------------------------------------------------------------

SetMax(S) == CHOOSE x \in S : \A y \in S : y <= x

\* the largest duration over the requests of a pool, 0 for an empty pool
StatedPoolDuration(pool) ==
    SetMax({0} \cup {StatedDuration(requests[pool[i].req]) : i \in DOMAIN pool})

DisInStep == ~DisStepBoundary

\* the steps begun since the engine was built: one queue_size sample each
DisStepsBegun ==
    Len(metrics.queue_size) + (IF DisInStep /\ pc # "dis_advance" THEN 1 ELSE 0)

DisStepsFinished == DisStepsBegun - (IF DisInStep THEN 1 ELSE 0)

DisStepOrder ==
    {<<"dis_tick", "dis_track_previous">>,
     <<"dis_track_previous", "dis_move_prefill">>,
     <<"dis_move_prefill", "dis_complete">>,
     <<"dis_complete", "dis_generate_load">>,
     <<"dis_generate_load", "dis_prefill_batcher">>,
     <<"dis_prefill_batcher", "dis_decode_batcher">>,
     <<"dis_decode_batcher", "dis_track_current">>,
     <<"dis_track_current", "dis_advance">>,
     <<"dis_advance", "dis_while">>}

C26_State ==
    /\ current_time >= DisStepsFinished * MinStepDuration
    /\ DisInStep => DisStepsBegun <= Ceil(time_limit)

C26_Action ==
    /\ pc = "dis_advance" =>
           current_time' = current_time
               + SetMax({StatedPoolDuration(prefill_slots),
                         StatedPoolDuration(decode_slots),
                         MinStepDuration})
    /\ pc # "dis_advance" => current_time' = current_time
    /\ (pc = "dis_while" /\ pc' = "dis_tick") => current_time < time_limit
    /\ (DisInStep /\ pc' # pc) => <<pc, pc'>> \in DisStepOrder

\* C26: the last statement of every DisaggregatedEngine step advances
\* current_time by exactly max(P, D, 1), P the largest (not the sum)
\* get_current_duration() over prefill_slots and D the largest over
\* decode_slots, 0 for an empty pool; so a step advances the time by at least
\* 1.0, a step begins only while current_time < time_limit, and no more than
\* ceil(time_limit) steps are ever begun: run terminates.
C26_StepDuration == [](C26_State) /\ [][C26_Action]_vars

\* after a first step with two requests in prefill, of 2.0 each, and the time
\* advanced by 2.0
C26_Witness ==
    /\ pc = "dis_while"
    /\ Len(prefill_slots) = 2
    /\ \A i \in DOMAIN prefill_slots :
           StatedDuration(requests[prefill_slots[i].req]) = 2 * MinStepDuration
    /\ DisStepsFinished = 1
    /\ current_time = 2 * MinStepDuration

\* ---------------------------------------------------------------------------
\* C27
\* ---------------------------------------------------------------------------

\* run(time_limit = 10) has returned
DemoDone == pc = "idle" /\ time_limit = DemoTimeLimit * MinStepDuration

C27_State ==
    DemoDone =>
        /\ Len(requests) = 2
        /\ \A i \in DOMAIN requests :
               /\ requests[i].tokens_generated = DefaultOutputLen
               /\ requests[i].target_output_len_tokens = DefaultOutputLen
        /\ queue = <<>>
        /\ current_batch = <<>>
        /\ Len(metrics.e2e_latency) = 2
        /\ get_current_batch_duration(current_batch, requests) = MinStepDuration

C27_Action ==
    (pc = "advance" /\ current_time > 0) =>
        current_time' = current_time + MinStepDuration

\* C27: the basic example of batch_duration_demo.py (2 slots, StaticBatcher,
\* a batch of 2 requests of prefill_time 2, itl 1 and 4 output tokens), once
\* run(time_limit = 10) has returned: both requests have their 4 tokens and
\* are retired, with one E2E sample each, the queue and the batch are empty
\* and get_current_batch_duration() is 1.0; and every step after the first,
\* the prefill step, lasts 1.0.
C27_Demo == [](C27_State) /\ [][C27_Action]_vars

\* the run of 10 has returned, at time 10, after a first step of 4.0 and six
\* of 1.0
C27_Witness ==
    /\ DemoDone
    /\ current_time = DemoTimeLimit * MinStepDuration
    /\ Len(metrics.queue_size) = 7
    /\ metrics.times[2] = 4 * MinStepDuration
    /\ Len(metrics.e2e_latency) = 2

\* ---------------------------------------------------------------------------
\* C28
\* ---------------------------------------------------------------------------

Logs == {"times", "queue_size", "ttft", "e2e_latency", "osl", "itl"}

StampedLogs == {"ttft", "e2e_latency", "osl", "itl"}

C28_State ==
    /\ Len(metrics.times) >= 1
    /\ metrics.times[1] = 0
    /\ \A f \in StampedLogs :
           \A i, j \in DOMAIN metrics[f] :
               i <= j => metrics[f][i][1] <= metrics[f][j][1]
    /\ StepBoundary => Len(metrics.times) = Len(metrics.queue_size) + 1

C28_Action ==
    /\ \A f \in Logs : IsPrefix(metrics[f], metrics'[f])
    \* one entry of times and of queue_size per step, by track_current_batch
    /\ Len(metrics'.times) - Len(metrics.times)
           = IF pc = "track_current" THEN 1 ELSE 0
    /\ Len(metrics'.queue_size) - Len(metrics.queue_size)
           = IF pc = "track_current" THEN 1 ELSE 0

\* C28: the metric logs are append-only: no entry of times, queue_size, ttft,
\* e2e_latency, osl or itl is ever changed or removed, and the timestamps of
\* ttft, e2e_latency, osl and itl never decrease along the log; times starts
\* as [0] and gets one entry per step, as queue_size does, so that between
\* steps len(times) = len(queue_size) + 1 = steps executed + 1.
C28_AppendOnly == [](C28_State) /\ [][C28_Action]_vars

\* between steps: ITL samples of two different steps, a first token and a
\* completion on record
C28_Witness ==
    /\ StepBoundary
    /\ Len(metrics.itl) >= 2
    /\ metrics.itl[1][1] < metrics.itl[Len(metrics.itl)][1]
    /\ Len(metrics.ttft) >= 1
    /\ Len(metrics.e2e_latency) >= 1
    /\ Len(metrics.times) >= 4

\* ---------------------------------------------------------------------------
\* C29
\* ---------------------------------------------------------------------------

\* the requests in the slots that are past their first token
PastFirstToken ==
    {i \in BatchReqs : requests[i].tokens_generated > 1}

\* the ITL samples taken in the step under way
SamplesOfStep ==
    {i \in DOMAIN metrics.itl : metrics.itl[i][1] = current_time}

C29_Action ==
    /\ pc = "track_current" =>
           /\ metrics'.queue_size = Append(metrics.queue_size, Len(queue))
           /\ Len(metrics'.itl) = Len(metrics.itl) + Cardinality(PastFirstToken)
           /\ IsPrefix(metrics.itl, metrics'.itl)
           /\ \A k \in Len(metrics.itl) + 1 .. Len(metrics'.itl) :
                  /\ metrics'.itl[k][1] = current_time
                  /\ metrics'.itl[k][2] >= MinStepDuration
                  /\ \A i \in PastFirstToken :
                         metrics'.itl[k][2] >= requests[i].itl
    /\ pc # "track_current" =>
           /\ metrics'.itl = metrics.itl
           /\ metrics'.queue_size = metrics.queue_size
    /\ pc = "advance" =>
           \A k \in SamplesOfStep :
               metrics.itl[k][2] = current_time' - current_time

C29_State ==
    pc = "advance" => Cardinality(SamplesOfStep) = Cardinality(PastFirstToken)

\* C29: in each Engine step, once the batcher has run, one queue-size sample
\* is appended, equal to the length of the queue at that moment, and one ITL
\* sample for each occupied slot whose request has tokens_generated > 1, none
\* for a request with tokens_generated <= 1; the value of each ITL sample is
\* the duration by which current_time is advanced at the end of that step, so
\* at least the itl of the request and at least 1.0.
C29_Samples == [](C29_State) /\ [][C29_Action]_vars

\* about to advance: two requests in the batch, one past its first token with
\* its sample, one without; the sample is longer than a decode step on its own
C29_Witness ==
    /\ pc = "advance"
    /\ Len(current_batch) = 2
    /\ Cardinality(PastFirstToken) = 1
    /\ Cardinality(SamplesOfStep) = 1
    /\ \A k \in SamplesOfStep :
           /\ metrics.itl[k][2] > MinStepDuration
           /\ \A i \in PastFirstToken : metrics.itl[k][2] > requests[i].itl

\* ---------------------------------------------------------------------------
\* C30
\* ---------------------------------------------------------------------------

Raised(v) == v = AssertionError

C30_Action ==
    (returned' # returned /\ returned'.call = "get_current_latency_at") =>
        /\ IF TheRequest.added_to_queue_at # None
           THEN returned'.value = returned'.at - TheRequest.added_to_queue_at
           ELSE Raised(returned'.value)
        /\ requests' = requests

C30_State ==
    pc # "request" =>
        /\ \A i \in DOMAIN requests :
               /\ requests[i].added_to_queue_at # None
               /\ requests[i].added_to_queue_at >= 0
               /\ requests[i].added_to_queue_at <= current_time
        /\ \A f \in {"ttft", "e2e_latency"} :
               \A k \in DOMAIN metrics[f] : ~Raised(metrics[f][k][2])

\* C30: get_current_latency_at(t) returns t - added_to_queue_at when
\* added_to_queue_at is set; when it is not, the call fails with an
\* AssertionError, returns no value and leaves the request as it was. Every
\* request a load generator creates has added_to_queue_at set, to the time of
\* its creation, so no call made by Metrics.track_previous_batch in an Engine
\* run fails.
C30_Latency == [](C30_State) /\ [][C30_Action]_vars

\* a base Request built without added_to_queue_at, ticked once, and the call
\* of get_current_latency_at(1.0) on it has raised
C30_Witness ==
    /\ pc = "request"
    /\ TheRequest.added_to_queue_at = None
    /\ TheRequest.tokens_generated = 1
    /\ returned.call = "get_current_latency_at"
    /\ returned.at = MinStepDuration
    /\ Raised(returned.value)

\* ---------------------------------------------------------------------------
\* C31
\* ---------------------------------------------------------------------------

\* the first of the two engines, as it was left
First == twin.first[1]

SecondBuilt == twin.first # <<>>

\* what an engine is made of, besides its constructor arguments
StateOf(e) ==
    [requests |-> e.requests, queue |-> e.queue,
     current_batch |-> e.current_batch, current_time |-> e.current_time,
     metrics |-> e.metrics, load_generator |-> e.load_generator]

Second ==
    [requests |-> requests, queue |-> queue, current_batch |-> current_batch,
     current_time |-> current_time, metrics |-> metrics,
     load_generator |-> load_generator]

Unperturbed == load_generator.target_output_len_std = 0

\* the second engine has had the calls of the first and is at the statement
\* of the step at which the first was left
SamePosition ==
    /\ SecondBuilt
    /\ First.runs = twin.runs
    /\ First.pc = pc
    /\ pc = "idle" \/ Len(First.metrics.queue_size) = Len(metrics.queue_size)

C31_State ==
    /\ (Unperturbed /\ SamePosition) => Second = StateOf(First)
    \* the second engine does not return before it is where the first was
    /\ (Unperturbed /\ SecondBuilt /\ First.runs = twin.runs /\ pc = "idle") =>
           Len(First.metrics.queue_size) <= Len(metrics.queue_size)

NumbersItsRequests ==
    load_generator.class \in {"BatchLoadGenerator", "ConcurrentLoadGenerator",
                              "RequestRateLoadGenerator"}

\* the requests created at time t, in creation order
CreatedAt(t) ==
    SelectSeq([i \in DOMAIN requests |-> i],
              LAMBDA i : requests[i].added_to_queue_at = t)

\* C32: with a BatchLoadGenerator, ConcurrentLoadGenerator or
\* RequestRateLoadGenerator, the requests created during the run of an Engine
\* have pairwise distinct ids: the id of a request is its creation time
\* followed by its index within the generate_load call that created it.
C32_DistinctIds ==
    NumbersItsRequests =>
        /\ \A i, j \in DOMAIN requests :
               requests[i].id = requests[j].id => i = j
        /\ \A i \in DOMAIN requests :
               LET same == CreatedAt(requests[i].added_to_queue_at)
               IN  \E k \in DOMAIN same :
                       /\ same[k] = i
                       /\ requests[i].id = <<requests[i].added_to_queue_at, k - 1>>

\* two requests of one generate_load call and one of a later call
C32_Witness ==
    /\ NumbersItsRequests
    /\ \E i, j, k \in DOMAIN requests :
           /\ i # j
           /\ requests[i].added_to_queue_at = requests[j].added_to_queue_at
           /\ requests[k].added_to_queue_at > requests[i].added_to_queue_at

\* ---------------------------------------------------------------------------
\* C33
\* ---------------------------------------------------------------------------

\* the steps completed, numbered from 0
CompletedSteps == 0 .. (StepsFinished - 1)

C33_State ==
    StepBoundary =>
        /\ \A i, j \in DOMAIN metrics.times :
               i < j => metrics.times[i] < metrics.times[j]
        /\ metrics.times[Len(metrics.times)] = current_time
        /\ \A i \in CompletedSteps :
               /\ get_time_interval(i)[2] - get_time_interval(i)[1]
                      >= MinStepDuration
               /\ i = 0 => get_time_interval(i)[1] = 0
               /\ i + 1 \in CompletedSteps =>
                      get_time_interval(i)[2] = get_time_interval(i + 1)[1]

C33_Action ==
    pc = "advance" =>
        get_time_interval(Len(metrics.queue_size) - 1)
            = <<current_time, current_time'>>

\* C33: after every completed Engine step times is strictly increasing and
\* ends with current_time, and get_time_interval(i) is the window in which
\* step i ran: from the current_time at which the step began to the
\* current_time it left, at least 1.0 wide, the first window starting at 0
\* and each next one where the one before ended.
C33_Windows == [](C33_State) /\ [][C33_Action]_vars

\* three steps completed, of which one longer than 1.0
C33_Witness ==
    /\ StepBoundary
    /\ StepsFinished = 3
    /\ \E i \in CompletedSteps :
           get_time_interval(i)[2] - get_time_interval(i)[1] > MinStepDuration
    /\ get_time_interval(2)[2] = current_time

\* ---------------------------------------------------------------------------
\* C34
\* ---------------------------------------------------------------------------

\* the requests of the slots, in the order of the dict
BatchSeq == PoolReqs(current_batch)

\* the requests that are neither waiting nor in a slot
Retired == DOMAIN requests \ (Range(queue) \cup Range(BatchSeq))

C34_State ==
    StepBoundary =>
        /\ Len(requests)
               = Len(queue) + Len(current_batch) + Len(metrics.e2e_latency)
        /\ NoDuplicates(queue \o BatchSeq)
        /\ Range(queue \o BatchSeq) \subseteq DOMAIN requests
        /\ Cardinality(Retired) = Len(metrics.e2e_latency)
        /\ \A i \in Retired :
               requests[i].tokens_generated = requests[i].target_output_len_tokens
        /\ \A i \in Range(queue) :
               /\ requests[i].tokens_generated = 0
               /\ requests[i].started_at = None

C34_Action ==
    \* a request is created once and never leaves the record
    /\ IsPrefix([i \in DOMAIN requests |-> requests[i].id],
                [i \in DOMAIN requests' |-> requests'[i].id])
    \* a retired request does not come back
    /\ (StepBoundary /\ StepBoundary') => Retired \subseteq Retired'

\* C34: requests are conserved in Engine: between steps the number of
\* requests the load generator has created equals len(queue) +
\* len(current_batch) + len(e2e_latency); each request is in the queue, in one
\* slot, or retired with its E2E sample, never in two places and never gone;
\* and a request still in the queue has no token and no started_at.
C34_Conservation == [](C34_State) /\ [][C34_Action]_vars

\* between steps: a request waiting, one in a slot and one retired
C34_Witness ==
    /\ StepBoundary
    /\ queue # <<>>
    /\ current_batch # <<>>
    /\ Retired # {}
    /\ Len(metrics.e2e_latency) >= 1

\* ---------------------------------------------------------------------------
\* C35
\* ---------------------------------------------------------------------------

C35_State ==
    (IsConcurrent /\ StepBoundary /\ StepsFinished >= 1) =>
        /\ Len(queue) + Len(current_batch) = load_generator.target_concurrency
        \* as many requests created as the target and the retired ones together
        /\ Len(requests)
               = load_generator.target_concurrency + Len(metrics.e2e_latency)

C35_Action ==
    (IsConcurrent /\ pc = "generate_load" /\ StepsFinished >= 1) =>
        \* the arrivals of the step are as many as the step has retired
        Len(requests') - Len(requests)
            = load_generator.target_concurrency - Len(queue) - Len(current_batch)

\* C35: in an Engine run with a ConcurrentLoadGenerator of target_concurrency
\* C >= 0, started from an empty engine, len(queue) + len(current_batch) is
\* exactly C at the end of every step, under every batcher: the requests a
\* step retires are replaced by as many arrivals in that same step.
C35_ConcurrencyHeld == [](C35_State) /\ [][C35_Action]_vars

\* between steps, after a retirement and its replacement, one request waiting
\* and one in a slot
C35_Witness ==
    /\ IsConcurrent
    /\ StepBoundary
    /\ load_generator.target_concurrency = 2
    /\ Len(metrics.e2e_latency) >= 1
    /\ Len(queue) = 1
    /\ Len(current_batch) = 1
    /\ Len(requests) >= 3

\* ---------------------------------------------------------------------------
\* C36
\* ---------------------------------------------------------------------------

\* the ticks a request still needs to reach its target
RemainingTicks(r) == TicksToCompletion(r) - Ticks(r)

InQueue(i) == i \in Range(queue)

InSlot(i) == i \in BatchReqs

IsRetired(i) ==
    /\ i \in DOMAIN requests
    /\ ~InQueue(i)
    /\ ~InSlot(i)
    /\ requests[i].tokens_generated >= requests[i].target_output_len_tokens

PositionInQueue(i) == CHOOSE k \in DOMAIN queue : queue[k] = i

\* the requests served no later than request i: those in the slots and, for a
\* waiting request, those before it in the queue and itself
ServedFirst(i) ==
    IF InQueue(i)
    THEN BatchSeq \o SubSeq(queue, 1, PositionInQueue(i))
    ELSE <<i>>

\* the ticks to be spent before request i is complete
Work(i) ==
    SumSeq([k \in DOMAIN ServedFirst(i) |->
                RemainingTicks(requests[ServedFirst(i)[k]])])

C36_State ==
    \* a request waits only while the slots are in use
    /\ (pc \in {"track_current", "advance", "while", "tick"} /\ queue # <<>>) =>
           current_batch # <<>>
    \* the ticks left never run out before the request is retired
    /\ \A i \in Range(queue) \cup BatchReqs :
           Work(i) >= IF StepBoundary THEN 1 ELSE 0

C36_Action ==
    \A i \in Range(queue) \cup BatchReqs :
        (InQueue(i)' \/ InSlot(i)') =>
            /\ Work(i)' <= Work(i)
            \* every tick of a batch brings each request in it or behind it
            \* closer to its completion
            /\ (pc = "tick" /\ current_batch # <<>>) => Work(i)' < Work(i)
            \* first come, first served
            /\ (InSlot(i) => InSlot(i)')
            /\ (InQueue(i) /\ InQueue(i)') =>
                   PositionInQueue(i)' <= PositionInQueue(i)

\* all requests of the batch retired, nothing waiting and nothing running
Drained ==
    /\ IsBatch
    /\ queue = <<>>
    /\ current_batch = <<>>
    /\ Len(metrics.e2e_latency) = load_generator.initial_batch

C36_Live ==
    /\ <>[](IsBatch => Drained)
    /\ \A i \in 1 .. MaxLoad :
           /\ (IsBatch /\ InQueue(i)) ~> InSlot(i)
           /\ (IsBatch /\ InQueue(i)) ~> IsRetired(i)

\* C36: no request starves in an Engine run with any of the three batchers:
\* the queue is served first come first served, a request waits only while
\* the slots are in use, and every tick of the batch strictly reduces the
\* ticks left before a waiting or running request completes, so with time
\* enough every request that enters the queue gets a slot and is retired. With
\* BatchLoadGenerator(initial_batch = n) every request of the batch is
\* eventually in a slot and eventually retired, and the engine reaches, and
\* stays in, a state with the queue and the batch empty and n E2E samples.
C36_NoStarvation == [](C36_State) /\ [][C36_Action]_vars /\ C36_Live

\* two requests of a batch both retired through a single slot, the engine
\* still running on an empty batch
C36_Witness ==
    /\ IsBatch
    /\ max_batch_size = 1
    /\ load_generator.initial_batch = 2
    /\ Drained
    /\ pc = "advance"
    /\ \A i \in DOMAIN requests : IsRetired(i)

\* ---------------------------------------------------------------------------
\* C37
\* ---------------------------------------------------------------------------

\* the first engine has returned from run(T1) and then from run(T2), with
\* T1 <= T2, and the second, built with the same arguments, from run(T2)
BothReturned ==
    /\ SecondBuilt
    /\ Len(First.runs) = 2
    /\ First.runs[1] <= First.runs[2]
    /\ First.pc = "idle"
    /\ twin.runs = <<First.runs[2]>>
    /\ pc = "idle"

\* the first engine enters run(T) again after run(T) has returned
RunRepeated ==
    /\ twin.first = <<>>
    /\ Len(twin.runs) = 2
    /\ twin.runs[1] = twin.runs[2]
    /\ pc = "while"

C37_State == (Unperturbed /\ BothReturned) => Second = StateOf(First)

C37_Action == RunRepeated => (pc' = "idle" /\ Second' = Second)

\* C37: Engine.run is resumable. For T1 <= T2, an engine that has returned
\* from run(T1) and then from run(T2) has the requests, queue, current_batch,
\* current_time, metric logs and load generator state of an engine built with
\* the same arguments that has returned from a single run(T2) (the draws of a
\* perturbed output length apart), and a run(T) repeated after run(T) returns
\* at once and changes none of them.
C37_Resumable == [](C37_State) /\ [][C37_Action]_vars

\* both engines returned, the first stopped by T1 in the middle of the work
\* and resumed: requests retired, others still queued or running
C37_Witness ==
    /\ Unperturbed
    /\ BothReturned
    /\ 0 < First.runs[1]
    /\ First.runs[1] < First.runs[2]
    /\ current_time >= First.runs[2]
    /\ Len(metrics.times) >= 4
    /\ Len(metrics.e2e_latency) >= 1
    /\ Len(queue) + Len(current_batch) >= 1

\* ---------------------------------------------------------------------------
\* C38
\* ---------------------------------------------------------------------------

\* the prefill share of a chunked request
PrefillShare(r) == r.prefill_time \div r.total_prefill_chunks

\* the request has had fewer ticks than it has chunks
BeforeNthTick(r) == Ticks(r) < r.total_prefill_chunks

\* what the request adds to the prefill sum and to the decode maximum of a
\* step, from the number of ticks it has had
StatedPrefillPart(r) == IF BeforeNthTick(r) THEN PrefillShare(r) ELSE 0

StatedDecodePart(r) == IF BeforeNthTick(r) THEN 0 ELSE r.itl

StatedStepDuration ==
    LET rs == [k \in DOMAIN current_batch |-> requests[current_batch[k].req]]
    IN  Max2(Max2(SumSeq([k \in DOMAIN rs |-> StatedPrefillPart(rs[k])]),
                  SetMax({StatedDecodePart(rs[k]) : k \in DOMAIN rs} \cup {0})),
             MinStepDuration)

C38_State ==
    \A i \in BatchReqs :
        LET r == requests[i]
        IN  IsChunkedContextRequest(r) =>
                \* no token before the N-th tick, one more with each tick
                \* from the N-th on
                /\ r.tokens_generated =
                       IF BeforeNthTick(r) THEN 0
                       ELSE Ticks(r) - r.total_prefill_chunks + 1
                \* the share for each of the N steps, then itl
                /\ get_current_duration(r) =
                       IF BeforeNthTick(r) THEN PrefillShare(r) ELSE r.itl
                /\ r.total_prefill_chunks * PrefillShare(r) = r.prefill_time

C38_Action ==
    \* a request is assigned with no tick, and has one tick per step
    /\ \A i \in BatchReqs' :
           Ticks(requests'[i]) =
               IF i \notin BatchReqs THEN 0
               ELSE Ticks(requests[i]) + (IF pc = "tick" THEN 1 ELSE 0)
    \* the TTFT samples of a step are those of the requests at their N-th tick
    /\ pc = "track_previous" =>
           Len(metrics'.ttft) - Len(metrics.ttft) =
               Cardinality({i \in BatchReqs :
                   Ticks(requests[i]) = requests[i].total_prefill_chunks})
    \* the step lasts as the shares and the itls say
    /\ pc = "advance" => current_time' - current_time = StatedStepDuration

\* C38: a ChunkedContextRequest with total_prefill_chunks = N is assigned to
\* a slot with no tick and has one tick in each later step; in the N steps it
\* ends with fewer than N ticks, the step of its assignment first, it adds
\* prefill_time / N to the prefill sum of the step duration, N shares making
\* prefill_time; its N-th tick yields its first token and its TTFT sample,
\* and from then on it stands in the step duration with its itl.
C38_ChunkedPrefill == [](C38_State) /\ [][C38_Action]_vars

\* a request of two chunks and two tokens at the end of the step of its N-th
\* tick: first token and TTFT sample there, the step lasting its itl
C38_Witness ==
    /\ pc = "while"
    /\ Len(metrics.ttft) = 1
    /\ Len(metrics.times) = 4
    /\ \E i \in BatchReqs :
           /\ requests[i].total_prefill_chunks = 2
           /\ requests[i].prefill_chunks_completed = 2
           /\ requests[i].tokens_generated = 1
           /\ requests[i].itl = 3 * MinStepDuration
           /\ requests[i].prefill_time = 2 * MinStepDuration
           /\ metrics.times[2] - metrics.times[1] = MinStepDuration
           /\ metrics.times[3] - metrics.times[2] = MinStepDuration
           /\ metrics.times[4] - metrics.times[3] = requests[i].itl

\* ---------------------------------------------------------------------------
\* C39
\* ---------------------------------------------------------------------------

\* track_current_batch has run in the step the engine is in, or no step is
\* under way
CurrentTracked == pc \in {"advance", "while", "idle", "tick"}

\* the ITL samples a request is to have contributed so far: one for each
\* step window it has begun, at track_current_batch, holding 2 .. T - 1
\* tokens. Between its tick and track_current_batch the window of the token
\* just produced is not begun.
SamplesDue(r) ==
    LET T == r.target_output_len_tokens
        held == IF CurrentTracked
                THEN Min2(r.tokens_generated, T - 1)
                ELSE r.tokens_generated - 1
    IN  Max2(held - 1, 0)

Completed(r) == r.tokens_generated >= r.target_output_len_tokens

C39_State ==
    /\ Len(metrics.itl) =
           SumSeq([i \in DOMAIN requests |-> SamplesDue(requests[i])])
    \* a completed request has had max(T - 2, 0) samples
    /\ \A i \in DOMAIN requests :
           Completed(requests[i]) =>
               /\ requests[i].tokens_generated =
                      requests[i].target_output_len_tokens
               /\ SamplesDue(requests[i]) =
                      Max2(requests[i].target_output_len_tokens - 2, 0)

C39_Action ==
    /\ pc = "track_current" =>
           \* one sample for each request that begins the window with
           \* 2 .. T - 1 tokens, none for the others
           /\ Len(metrics'.itl) - Len(metrics.itl) =
                  Cardinality({i \in DOMAIN requests :
                      /\ requests[i].tokens_generated >= 2
                      /\ requests[i].tokens_generated <=
                             requests[i].target_output_len_tokens - 1})
           /\ \A i \in DOMAIN requests :
                  SamplesDue(requests[i])' - SamplesDue(requests[i]) =
                      IF /\ requests[i].tokens_generated >= 2
                         /\ requests[i].tokens_generated <=
                                requests[i].target_output_len_tokens - 1
                      THEN 1 ELSE 0
    /\ pc # "track_current" =>
           /\ Len(metrics'.itl) = Len(metrics.itl)
           /\ \A i \in DOMAIN requests :
                  SamplesDue(requests[i])' = SamplesDue(requests[i])

C40_State ==
    DisStepBoundary => Len(metrics.e2e_latency) = Len(completed_requests)

C40_Action ==
    \* the requests step 3 moves to completed_requests are those that
    \* track_previous_batch has just sampled
    pc = "dis_complete" =>
        Len(completed_requests') - Len(completed_requests) =
            Len(metrics.e2e_latency) - Len(completed_requests)

\* C40: in DisaggregatedEngine, for every target_output_len_tokens >= 1, the
\* E2E-latency samples are at the end of every step as many as the requests
\* in completed_requests, and the requests step 3 moves out of decode_slots
\* are those whose E2E (and OSL) sample was recorded in that step.
C40_SampledWhenCompleted == [](C40_State) /\ [][C40_Action]_vars

\* the part of C40 that holds in the code: the samples and the completed
\* requests are as many when every request handled has a target of 2 or more
C40_FromTwo ==
    (/\ DisStepBoundary
     /\ \A i \in Entered : requests[i].target_output_len_tokens >= 2) =>
        /\ Len(metrics.e2e_latency) = Len(completed_requests)
        /\ Len(metrics.osl) = Len(completed_requests)
====
